---- MODULE Spec2Model ----
(***************************************************************************)
(* DealPact escrow bot (src/bot/index.js, v3.2): the deal lifecycle, the   *)
(* ledger reconciliation loop pollDeals, and the dispute / evidence /      *)
(* moderation handlers, as a state machine.                                *)
(*                                                                         *)
(* Every handler is an async function: the database and ledger calls it    *)
(* awaits are the points where other handlers and pollDeals run.  One      *)
(* action of this module is one segment of a handler between two awaits,   *)
(* with the effect of the awaited call.  A handler that has read the deal  *)
(* and not yet finished is a record of inflight; a running pollDeals cycle *)
(* is a record of polls.                                                   *)
(*                                                                         *)
(* The escrow contract is not part of the sources: the ledger is the       *)
(* environment, modelled from the status codes the bot reads               *)
(* (getOnChainStatus) and the calls it makes.                              *)
(***************************************************************************)
EXTENDS Naturals, Sequences, FiniteSets, TLC

\* ------------------------------------------------------------ identities

DealIds == {"DP-1"}

Seller == "seller"
Buyer == "buyer"
Outsider == "other"
BOTMASTER_IDS == {"bm"}
ModCandidates == {"m1", "m2"}
Actors == {Seller, Buyer, Outsider} \cup BOTMASTER_IDS \cup ModCandidates

Reasons == {"no delivery"}
Decisions == {"release", "refund"}

\* ---------------------------------------------------------------- bounds

\* Handlers and pollDeals cycles that have started and not finished.
MaxInFlight == 2
\* Rows of the evidence table.
MaxEvidence == 1
\* Rows of the admin_logs table that are kept track of.
MaxLogs == 1

\* --------------------------------------------------- ledger status codes

ChainPending == 0
ChainFunded == 1
ChainCompleted == 2
ChainRefunded == 3
ChainDisputed == 4
ChainCancelled == 5

MIN_AMOUNT == 1
MAX_AMOUNT == 500
DealAmount == 50
Amounts == {0, DealAmount, 501}

\* ----------------------------------------------------------------- state

VARIABLES
    deals,       \* table deals: deal id -> row (only the ids that exist)
    chain,       \* the ledger: deal id -> [id, status]; id = 0: not on the ledger
    moderators,  \* table moderators: rows [telegram_id, is_active], one per telegram_id
    evidence,    \* table evidence: the rows, in insertion order
    admin_logs,  \* table admin_logs: its first MaxLogs rows, in insertion order
    inflight,    \* handlers between their read of the deal and their last step
    polls,       \* running pollDeals cycles
    last,        \* what the step just taken replied or wrote (NoEvent: nothing)
    page         \* the web page in the buyer's browser: URL, state and shown sections

vars == <<deals, chain, moderators, evidence, admin_logs, inflight, polls, last, page>>

Statuses == {"pending_deposit", "funded", "disputed", "completed", "refunded", "cancelled"}

NoEvent == [op |-> "-", actor |-> "-", d |-> "-", res |-> "-"]

\* state.deal = null
NoDeal == [id |-> "null", status |-> ChainPending, buyer |-> "null"]

\* The page as loaded from the address `action_param` came with: the state
\* object as declared, the search form shown, and hidden the sections that
\* searchDeal, the provider callback and releaseFunds show later.
Loaded(action_param) ==
    [action_param |-> action_param,
     deal |-> NoDeal,
     address |-> "null",
     action |-> "deposit",
     hidden |-> {"deal-section", "action-section", "release-btn", "success-section"}]

Init ==
    /\ deals = [d \in {} |-> 0]
    /\ chain = [d \in DealIds |-> [id |-> 0, status |-> ChainPending]]
    /\ moderators = {}
    /\ evidence = <<>>
    /\ admin_logs = <<>>
    /\ inflight = {}
    /\ polls = {}
    /\ last = NoEvent
    /\ page = Loaded("none")

\* --------------------------------------------------------------- helpers

\* getDeal: the row, or "not found".
getDeal(d) == IF d \in DOMAIN deals THEN deals[d] ELSE [status |-> "none"]

Exists(d) == d \in DOMAIN deals

StatusOf(d) == getDeal(d).status

isBotmaster(a) == a \in BOTMASTER_IDS

\* The row of m in moderators with is_active = true.
ActiveRow(m) == [telegram_id |-> m, is_active |-> TRUE]

\* isModerator: the row with .eq('telegram_id', id).eq('is_active', true)
isModerator(a) == ActiveRow(a) \in moderators

\* isAnyAdmin: the role, "none" for { isAdmin: false }.
isAnyAdmin(a) ==
    IF isBotmaster(a) THEN "botmaster"
    ELSE IF isModerator(a) THEN "moderator"
    ELSE "none"

isSeller(a) == a = Seller
isBuyer(a) == a = Buyer

Busy == Cardinality(inflight) + Cardinality(polls)

\* No handler and no pollDeals cycle is under way.
Idle == inflight = {} /\ polls = {}

CanStart == Busy < MaxInFlight

Event(op, a, d, res) == [op |-> op, actor |-> a, d |-> d, res |-> res]

Handler(op, a, d, pc, arg, aux) ==
    [op |-> op, actor |-> a, d |-> d, pc |-> pc, arg |-> arg, aux |-> aux]

\* supabase.from('deals').update(patch).ilike('deal_id', d): no condition on
\* the row's current status.
UpdateDeal(d, patch) ==
    [x \in DOMAIN deals |->
        IF x = d
        THEN [f \in DOMAIN deals[x] |->
                 IF f \in DOMAIN patch THEN patch[f] ELSE deals[x][f]]
        ELSE deals[x]]

\* A step that neither replies nor writes to the store.
Quiet == last' = NoEvent

\* A handler step that only replies.
Reply(op, a, d, res) ==
    /\ last' = Event(op, a, d, res)
    /\ UNCHANGED <<deals, chain, moderators, evidence, admin_logs, inflight, polls, page>>

\* A handler that passed its checks and now awaits its next call.
Begin(h) ==
    /\ CanStart
    /\ inflight' = inflight \cup {h}
    /\ Quiet /\ UNCHANGED <<deals, chain, moderators, evidence, admin_logs, polls, page>>

\* A handler's step to its next await.
Goto(h, pc, aux) == inflight' = (inflight \ {h}) \cup {[h EXCEPT !.pc = pc, !.aux = aux]}

Done(h) == inflight' = inflight \ {h}

LogEntry(action, d, a) == [action |-> action, deal_id |-> d, admin |-> a]

Unlogged(res) == IF res = "sent" THEN "sent_unlogged" ELSE "applied_unlogged"

\* logAdminAction(action, ...) and the reply res that follows it: the insert
\* into admin_logs succeeds, or it fails and logAdminAction prints the error
Logged(op, a, d, res, action) ==
    \/ /\ admin_logs' = IF Len(admin_logs) < MaxLogs
                        THEN Append(admin_logs, LogEntry(action, d, a))
                        ELSE admin_logs
       /\ last' = Event(op, a, d, res)
    \/ /\ UNCHANGED admin_logs
       /\ last' = Event(op, a, d, Unlogged(res))

\* The messages a handler sends after its reply, each in its own try/catch:
\* dispute to the other party and then to the botmasters; assign to the
\* moderator and then notifyParties; canceldispute and resolve to the seller
\* and then to the buyer.
NoticePcs == {"notify_party", "notify_admins", "notify_mod", "notify_seller", "notify_buyer"}

FirstNotice(op) ==
    CASE op = "dispute" -> "notify_party"
      [] op = "assign" -> "notify_mod"
      [] OTHER -> "notify_seller"

NextNotice(pc) ==
    CASE pc = "notify_party" -> "notify_admins"
      [] pc = "notify_mod" -> "notify_seller"
      [] pc = "notify_seller" -> "notify_buyer"
      [] OTHER -> "done"

\* The handler has replied and goes on to its messages.
Notices(h) == Goto(h, FirstNotice(h.op), h.aux)

\* a message whose failure escapes: the handler stops at the first failed send
Notify_Throws(h) ==
    /\ h.pc \in NoticePcs
    /\ \/ /\ Quiet
          /\ IF NextNotice(h.pc) = "done" THEN Done(h)
             ELSE Goto(h, NextNotice(h.pc), h.aux)
       \/ /\ last' = Event(h.op, h.actor, h.d, "notify_failed")
          /\ Done(h)
    /\ UNCHANGED <<deals, chain, moderators, evidence, admin_logs, polls, page>>

\* try { await bot.api.sendMessage(...) } catch (e) {}: one message of the
\* handler, delivered or failed, and on to the next
Notify(h) ==
    /\ h.pc \in NoticePcs
    /\ \/ Quiet
       \/ \* sendMessage throws and the catch swallows it
          last' = Event(h.op, h.actor, h.d, "notify_failed")
    /\ IF NextNotice(h.pc) = "done" THEN Done(h)
       ELSE Goto(h, NextNotice(h.pc), h.aux)
    /\ UNCHANGED <<deals, chain, moderators, evidence, admin_logs, polls, page>>

\* ------------------------------------------------------------------- new

\* bot.command('new')
New(a, d, amount) ==
    /\ a = Seller
    /\ IF amount < MIN_AMOUNT \/ amount > MAX_AMOUNT
       THEN Reply("new", a, d, "rejected")
       ELSE IF Exists(d)
       THEN Reply("new", a, d, "failed")
       ELSE /\ deals' = [x \in DOMAIN deals \cup {d} |->
                            IF x = d
                            THEN [status |-> "pending_deposit",
                                  amount |-> amount,
                                  contract_deal_id |-> FALSE,
                                  disputed_by |-> "none",
                                  dispute_reason |-> "none",
                                  assigned_to |-> "none",
                                  funded_at |-> "null",
                                  release_reminder_sent |-> FALSE,
                                  seller_rating |-> 0,
                                  seller_review |-> "null",
                                  buyer_rating |-> 0,
                                  buyer_review |-> "null"]
                            ELSE deals[x]]
            /\ last' = Event("new", a, d, "created")
            /\ UNCHANGED <<chain, moderators, evidence, admin_logs, inflight, polls, page>>

\* ---------------------------------------------------------------- ledger

OnLedger(d) == chain[d].id # 0

\* A transaction the ledger accepts moves the deal's ledger status.
ChainSet(d, st) == chain' = [chain EXCEPT ![d] = [id |-> 1, status |-> st]]

\* escrowContract.createDeal: refused for an external id the ledger has.
chainCreateDeal(d) == ~OnLedger(d) /\ ChainSet(d, ChainPending)

\* escrowContract.dispute
chainDispute(d) == OnLedger(d) /\ chain[d].status = ChainFunded /\ ChainSet(d, ChainDisputed)

\* escrowContract.resolveRelease / escrowContract.refund
chainResolve(d, decision) ==
    /\ OnLedger(d)
    /\ chain[d].status \in {ChainFunded, ChainDisputed}
    /\ ChainSet(d, IF decision = "release" THEN ChainCompleted ELSE ChainRefunded)

\* The web page's depositUSDC: the buyer's wallet pays into the escrow.
Deposit(d) ==
    /\ OnLedger(d)
    /\ chain[d].status = ChainPending
    /\ ChainSet(d, ChainFunded)
    /\ Quiet /\ UNCHANGED <<deals, moderators, evidence, admin_logs, inflight, polls, page>>

\* The web page's releaseFunds: offered for a deal the ledger reports funded.
WebRelease(d) ==
    /\ OnLedger(d)
    /\ chain[d].status = ChainFunded
    /\ ChainSet(d, ChainCompleted)
    /\ Quiet /\ UNCHANGED <<deals, moderators, evidence, admin_logs, inflight, polls, page>>

\* getOnChainStatus, when its two reads succeed.
getOnChainStatus(d) ==
    IF chain[d].id = 0 THEN [exists |-> FALSE, status |-> ChainPending]
    ELSE [exists |-> TRUE, status |-> chain[d].status]

\* ------------------------------------------------------------------ fund

\* bot.command('fund') and bot.callbackQuery(/^fund_(.+)$/), up to the ledger calls
FundStart(a, d) ==
    IF ~Exists(d) THEN Reply("fund", a, d, "rejected")
    ELSE IF ~isBuyer(a) THEN Reply("fund", a, d, "rejected")
    ELSE IF deals[d].status # "pending_deposit" THEN Reply("fund", a, d, "rejected")
    ELSE Begin(Handler("fund", a, d, "onchain", "-", "-"))

\* fund whose failed createDeal is not noticed: the handler goes on to the
\* update of the deal record
FundOnChain_IgnoresFailure(h) ==
    /\ h.op = "fund" /\ h.pc = "onchain"
    /\ UNCHANGED chain
    /\ Goto(h, "write", "-")
    /\ Quiet /\ UNCHANGED <<deals, moderators, evidence, admin_logs, polls, page>>

\* fund: externalIdToDealId, then createDeal and waitWithTimeout(tx). The
\* catch replies and returns; a transaction whose confirmation timed out may
\* still be mined afterwards.
FundOnChain(h) ==
    /\ h.op = "fund" /\ h.pc = "onchain"
    /\ \/ /\ \/ OnLedger(h.d) /\ UNCHANGED chain
             \/ chainCreateDeal(h.d)
          /\ Goto(h, "write", "-")
          /\ Quiet /\ UNCHANGED <<deals, moderators, evidence, admin_logs, polls, page>>
       \/ /\ \/ UNCHANGED chain
             \/ chainCreateDeal(h.d)
          /\ inflight' = inflight \ {h}
          /\ last' = Event("fund", h.actor, h.d, "failed")
          /\ UNCHANGED <<deals, moderators, evidence, admin_logs, polls, page>>

\* fund: the update of contract_deal_id, whose result is not looked at, and
\* the reply 'Ready to deposit!'
FundWrite(h) ==
    /\ h.op = "fund" /\ h.pc = "write"
    /\ \/ /\ deals' = UpdateDeal(h.d, [contract_deal_id |-> TRUE])
          /\ last' = Event("fund", h.actor, h.d, "applied")
       \/ /\ last' = Event("fund", h.actor, h.d, "unsaved")
          /\ UNCHANGED deals
    /\ inflight' = inflight \ {h}
    /\ UNCHANGED <<chain, moderators, evidence, admin_logs, polls, page>>

\* ------------------------------------------------------------- pollDeals

Snap(d) ==
    [d |-> d,
     funded_at |-> deals[d].funded_at,
     release_reminder_sent |-> deals[d].release_reminder_sent]

RECURSIVE SeqOf(_)
\* The members of a finite set as a sequence (the order of a select's rows).
SeqOf(S) ==
    IF S = {} THEN <<>>
    ELSE LET x == CHOOSE y \in S : TRUE IN <<x>> \o SeqOf(S \ {x})

\* select('*').eq('status', st).not('contract_deal_id', 'is', null)
SelectDeals(st) ==
    LET ids == {d \in DOMAIN deals : deals[d].status = st /\ deals[d].contract_deal_id}
        ordered == SeqOf(ids)
    IN [i \in 1..Len(ordered) |-> Snap(ordered[i])]

Cycle(pc, todo, funded) == [pc |-> pc, todo |-> todo, funded |-> funded]

PollStep(p, q) == polls' = (polls \ {p}) \cup {q}

\* The reminder sweep's test before its write: not reminded, funded_at set,
\* and 24 hours elapsed since the funded_at the cycle fetched.
NeedsReminder(s) ==
    /\ ~s.release_reminder_sent
    /\ \/ s.funded_at = "old"
       \/ s.funded_at = "recent" /\ Exists(s.d) /\ deals[s.d].funded_at = "old"

\* pollDeals: the first select (pending deals anchored on the ledger)
PollStart ==
    /\ CanStart
    /\ polls' = polls \cup {Cycle("pending", SelectDeals("pending_deposit"), <<>>)}
    /\ Quiet /\ UNCHANGED <<deals, chain, moderators, evidence, admin_logs, inflight, page>>

\* the first loop with a failed ledger read ending the cycle
PollPendingChain_Abort(p) ==
    /\ p.pc = "pending" /\ p.todo # <<>>
    /\ LET d == Head(p.todo).d IN
       \/ /\ polls' = polls \ {p}
          /\ last' = Event("poll_lookup", "poll", d, "failed")
       \/ /\ ~(getOnChainStatus(d).exists /\ getOnChainStatus(d).status = ChainFunded)
          /\ PollStep(p, [p EXCEPT !.todo = Tail(p.todo)])
          /\ Quiet
       \/ /\ getOnChainStatus(d).exists
          /\ getOnChainStatus(d).status = ChainFunded
          /\ PollStep(p, [p EXCEPT !.pc = "pending_write"])
          /\ Quiet
    /\ UNCHANGED <<deals, chain, moderators, evidence, admin_logs, inflight, page>>

\* pollDeals, first loop: externalIdToDealId and deals(chainId) for one deal
PollPendingChain(p) ==
    /\ p.pc = "pending" /\ p.todo # <<>>
    /\ LET d == Head(p.todo).d IN
       \/ \* a read throws: catch (e) {}, on to the next deal
          /\ PollStep(p, [p EXCEPT !.todo = Tail(p.todo)])
          /\ last' = Event("poll_lookup", "poll", d, "failed")
       \/ \* the ledger has no such deal, or it is not funded
          /\ ~(getOnChainStatus(d).exists /\ getOnChainStatus(d).status = ChainFunded)
          /\ PollStep(p, [p EXCEPT !.todo = Tail(p.todo)])
          /\ Quiet
       \/ /\ getOnChainStatus(d).exists
          /\ getOnChainStatus(d).status = ChainFunded
          /\ PollStep(p, [p EXCEPT !.pc = "pending_write"])
          /\ Quiet
    /\ UNCHANGED <<deals, chain, moderators, evidence, admin_logs, inflight, page>>

\* pollDeals, first loop: update({ status: 'funded', funded_at }); the result
\* of the update is not looked at ("unsaved": it returned an error) and the
\* messages to seller and buyer follow
PollPendingWrite(p) ==
    /\ p.pc = "pending_write"
    /\ LET d == Head(p.todo).d IN
       \/ /\ deals' = UpdateDeal(d, [status |-> "funded", funded_at |-> "recent"])
          /\ last' = Event("poll_funded", "poll", d, "applied")
       \/ /\ last' = Event("poll_funded", "poll", d, "unsaved")
          /\ UNCHANGED deals
    /\ PollStep(p, [p EXCEPT !.pc = "pending_notify"])
    /\ UNCHANGED <<chain, moderators, evidence, admin_logs, inflight, page>>

\* pollDeals: the second select (funded deals anchored on the ledger)
PollFetchFunded(p) ==
    /\ p.pc = "pending" /\ p.todo = <<>>
    /\ LET funded == SelectDeals("funded") IN
       PollStep(p, Cycle("funded", funded, funded))
    /\ Quiet /\ UNCHANGED <<deals, chain, moderators, evidence, admin_logs, inflight, page>>

\* pollDeals, second loop: externalIdToDealId and deals(chainId) for one deal
PollFundedChain(p) ==
    /\ p.pc = "funded" /\ p.todo # <<>>
    /\ LET d == Head(p.todo).d IN
       \/ \* a read throws: catch (e) {}, on to the next deal
          /\ PollStep(p, [p EXCEPT !.todo = Tail(p.todo)])
          /\ last' = Event("poll_lookup", "poll", d, "failed")
       \/ /\ ~(getOnChainStatus(d).exists /\ getOnChainStatus(d).status = ChainCompleted)
          /\ PollStep(p, [p EXCEPT !.todo = Tail(p.todo)])
          /\ Quiet
       \/ /\ getOnChainStatus(d).exists
          /\ getOnChainStatus(d).status = ChainCompleted
          /\ PollStep(p, [p EXCEPT !.pc = "funded_write"])
          /\ Quiet
    /\ UNCHANGED <<deals, chain, moderators, evidence, admin_logs, inflight, page>>

\* pollDeals, second loop: update({ status: 'completed', completed_at }); the
\* messages to seller and buyer follow
PollFundedWrite(p) ==
    /\ p.pc = "funded_write"
    /\ LET d == Head(p.todo).d IN
       \/ /\ deals' = UpdateDeal(d, [status |-> "completed"])
          /\ last' = Event("poll_completed", "poll", d, "applied")
       \/ /\ last' = Event("poll_completed", "poll", d, "unsaved")
          /\ UNCHANGED deals
    /\ PollStep(p, [p EXCEPT !.pc = "funded_notify"])
    /\ UNCHANGED <<chain, moderators, evidence, admin_logs, inflight, page>>

\* pollDeals, third loop, over the list the second select returned:
\* update({ release_reminder_sent: true }) for one deal, or the end of the cycle
PollRemind(p) ==
    /\ p.pc = "funded" /\ p.todo = <<>>
    /\ IF p.funded = <<>>
       THEN /\ polls' = polls \ {p}
            /\ Quiet /\ UNCHANGED <<deals>>
       ELSE LET s == Head(p.funded) IN
            IF NeedsReminder(s)
            THEN /\ \/ /\ deals' = UpdateDeal(s.d, [release_reminder_sent |-> TRUE])
                       /\ last' = Event("poll_remind", "poll", s.d, "applied")
                    \/ /\ last' = Event("poll_remind", "poll", s.d, "unsaved")
                       /\ UNCHANGED deals
                 /\ PollStep(p, [p EXCEPT !.pc = "remind_notify"])
            ELSE /\ Quiet /\ UNCHANGED <<deals>>
                 /\ PollStep(p, [p EXCEPT !.funded = Tail(p.funded)])
    /\ UNCHANGED <<chain, moderators, evidence, admin_logs, inflight, page>>

\* The messages of a pollDeals step, after its update.
PollNoticePcs == {"pending_notify", "funded_notify", "remind_notify"}

\* The cycle after the messages of its step: the next deal of the loop.
AfterNotice(p) ==
    CASE p.pc = "pending_notify" -> [p EXCEPT !.pc = "pending", !.todo = Tail(p.todo)]
      [] p.pc = "funded_notify" -> [p EXCEPT !.pc = "funded", !.todo = Tail(p.todo)]
      [] OTHER -> [p EXCEPT !.pc = "funded", !.funded = Tail(p.funded)]

\* pollDeals: the sendMessage calls to seller and buyer after an update, each
\* in its own try/catch, and on to the next deal of the loop
PollNotify(p) ==
    /\ p.pc \in PollNoticePcs
    /\ LET d == IF p.pc = "remind_notify" THEN Head(p.funded).d ELSE Head(p.todo).d IN
       \/ Quiet
       \/ \* a sendMessage throws and the catch swallows it
          last' = Event("poll_notify", "poll", d, "notify_failed")
    /\ PollStep(p, AfterNotice(p))
    /\ UNCHANGED <<deals, chain, moderators, evidence, admin_logs, inflight, page>>

\* 24 hours pass since a deal's funded_at.
Tick(d) ==
    /\ Exists(d)
    /\ deals[d].funded_at = "recent"
    /\ deals' = UpdateDeal(d, [funded_at |-> "old"])
    /\ Quiet /\ UNCHANGED <<chain, moderators, evidence, admin_logs, inflight, polls, page>>

\* --------------------------------------------------------------- release

\* /release without the check that the deal is funded or disputed
ReleaseCommand_AnyStatus(a, d, confirm) ==
    IF ~Exists(d) THEN Reply("release", a, d, "rejected")
    ELSE IF ~isBuyer(a) THEN Reply("release", a, d, "rejected")
    ELSE IF deals[d].status = "disputed" /\ ~confirm THEN Reply("release", a, d, "rejected")
    ELSE Reply("release", a, d, "link")

\* bot.command('release'): the reply is the release link or a refusal
ReleaseCommand(a, d, confirm) ==
    IF ~Exists(d) THEN Reply("release", a, d, "rejected")
    ELSE IF ~isBuyer(a) THEN Reply("release", a, d, "rejected")
    ELSE IF deals[d].status = "disputed" /\ ~confirm THEN Reply("release", a, d, "rejected")
    ELSE IF deals[d].status \notin {"funded", "disputed"} THEN Reply("release", a, d, "rejected")
    ELSE Reply("release", a, d, "link")

\* bot.callbackQuery(/^release_(.+)$/)
ReleaseButton(a, d) ==
    IF ~Exists(d) THEN Reply("release_button", a, d, "rejected")
    ELSE IF ~isBuyer(a) THEN Reply("release_button", a, d, "rejected")
    ELSE IF deals[d].status \notin {"funded", "disputed"}
         THEN Reply("release_button", a, d, "rejected")
    ELSE Reply("release_button", a, d, "link")

\* ---------------------------------------------------------------- cancel

\* bot.command('cancel'), up to its update
CancelStart(a, d) ==
    IF ~Exists(d) THEN Reply("cancel", a, d, "rejected")
    ELSE IF ~isSeller(a) /\ ~isBuyer(a) THEN Reply("cancel", a, d, "rejected")
    ELSE IF deals[d].status # "pending_deposit" THEN Reply("cancel", a, d, "rejected")
    ELSE IF ~isSeller(a) THEN Reply("cancel", a, d, "rejected")
    ELSE Begin(Handler("cancel", a, d, "write", "-", "-"))

\* bot.callbackQuery(/^cancel_(.+)$/), up to its update
CancelButton(a, d) ==
    IF ~Exists(d) THEN Reply("cancel", a, d, "rejected")
    ELSE IF ~isSeller(a) THEN Reply("cancel", a, d, "rejected")
    ELSE IF deals[d].status # "pending_deposit" THEN Reply("cancel", a, d, "rejected")
    ELSE Begin(Handler("cancel", a, d, "write", "-", "-"))

\* cancel that deletes the row instead of marking it cancelled
CancelWrite_Delete(h) ==
    /\ h.op = "cancel" /\ h.pc = "write"
    /\ deals' = [x \in DOMAIN deals \ {h.d} |-> deals[x]]
    /\ Done(h)
    /\ last' = Event("cancel", h.actor, h.d, "applied")
    /\ UNCHANGED <<chain, moderators, evidence, admin_logs, polls, page>>

\* cancel: update({ status: 'cancelled' }), then the reply 'cancelled'; the
\* result of the update is not looked at ("unsaved": it returned an error)
CancelWrite(h) ==
    /\ h.op = "cancel" /\ h.pc = "write"
    /\ \/ /\ deals' = UpdateDeal(h.d, [status |-> "cancelled"])
          /\ last' = Event("cancel", h.actor, h.d, "applied")
       \/ /\ last' = Event("cancel", h.actor, h.d, "unsaved")
          /\ UNCHANGED deals
    /\ Done(h)
    /\ UNCHANGED <<chain, moderators, evidence, admin_logs, polls, page>>

\* --------------------------------------------------------------- dispute

\* dispute without the check of the deal's status
DisputeStart_AnyStatus(a, d, reason) ==
    IF ~Exists(d) THEN Reply("dispute", a, d, "rejected")
    ELSE IF ~isSeller(a) /\ ~isBuyer(a) THEN Reply("dispute", a, d, "rejected")
    ELSE Begin(Handler("dispute", a, d, "onchain", reason, "-"))

\* bot.command('dispute'), up to the ledger calls
DisputeStart(a, d, reason) ==
    IF ~Exists(d) THEN Reply("dispute", a, d, "rejected")
    ELSE IF ~isSeller(a) /\ ~isBuyer(a) THEN Reply("dispute", a, d, "rejected")
    ELSE IF deals[d].status # "funded" THEN Reply("dispute", a, d, "rejected")
    ELSE Begin(Handler("dispute", a, d, "onchain", reason, "-"))

\* dispute whose failed ledger call ends the handler
DisputeOnChain_Blocking(h) ==
    /\ h.op = "dispute" /\ h.pc = "onchain"
    /\ \/ /\ chainDispute(h.d)
          /\ Goto(h, "write", "-")
          /\ Quiet
       \/ /\ UNCHANGED chain
          /\ Done(h)
          /\ last' = Event("dispute", h.actor, h.d, "failed")
    /\ UNCHANGED <<deals, moderators, evidence, admin_logs, polls, page>>

\* dispute: externalIdToDealId, deals(chainId), then escrowContract.dispute and
\* waitWithTimeout(tx) for a deal the ledger reports funded; every failure is
\* caught and the handler goes on
DisputeOnChain(h) ==
    /\ h.op = "dispute" /\ h.pc = "onchain"
    /\ \/ chainDispute(h.d)
       \/ UNCHANGED chain
    /\ Goto(h, "write", "-")
    /\ Quiet /\ UNCHANGED <<deals, moderators, evidence, admin_logs, polls, page>>

\* dispute: update({ status: 'disputed', disputed_by, dispute_reason, ... })
DisputeWrite(h) ==
    /\ h.op = "dispute" /\ h.pc = "write"
    /\ \/ /\ deals' = UpdateDeal(h.d, [status |-> "disputed",
                                       disputed_by |-> h.actor,
                                       dispute_reason |-> h.arg])
          /\ last' = Event("dispute", h.actor, h.d, "applied")
          /\ Notices(h)
       \/ \* the update returns an error
          /\ last' = Event("dispute", h.actor, h.d, "failed")
          /\ UNCHANGED deals
          /\ Done(h)
    /\ UNCHANGED <<chain, moderators, evidence, admin_logs, polls, page>>

\* --------------------------------------------------------- canceldispute

\* bot.command('canceldispute'), up to isAnyAdmin
CancelDisputeStart(a, d) ==
    IF ~Exists(d) THEN Reply("canceldispute", a, d, "rejected")
    ELSE IF deals[d].status # "disputed" THEN Reply("canceldispute", a, d, "rejected")
    ELSE Begin(Handler("canceldispute", a, d, "write", "-",
                       IF deals[d].disputed_by = a THEN "disputer" ELSE "-"))

\* canceldispute without the check of disputer or admin
CancelDisputeWrite_NoCheck(h) ==
    /\ h.op = "canceldispute" /\ h.pc = "write"
    /\ deals' = UpdateDeal(h.d, [status |-> "funded"])
    /\ last' = Event("canceldispute", h.actor, h.d, "applied")
    /\ Notices(h)
    /\ UNCHANGED <<chain, moderators, evidence, admin_logs, polls, page>>

\* canceldispute: isAnyAdmin, then update({ status: 'funded' }); the result
\* of the update is not looked at ("unsaved": it returned an error)
CancelDisputeWrite(h) ==
    /\ h.op = "canceldispute" /\ h.pc = "write"
    /\ IF h.aux # "disputer" /\ isAnyAdmin(h.actor) = "none"
       THEN /\ last' = Event("canceldispute", h.actor, h.d, "rejected")
            /\ UNCHANGED deals
            /\ Done(h)
       ELSE /\ \/ /\ deals' = UpdateDeal(h.d, [status |-> "funded"])
                  /\ last' = Event("canceldispute", h.actor, h.d, "applied")
               \/ /\ last' = Event("canceldispute", h.actor, h.d, "unsaved")
                  /\ UNCHANGED deals
            /\ Notices(h)
    /\ UNCHANGED <<chain, moderators, evidence, admin_logs, polls, page>>

\* ---------------------------------------------------- ratings and reviews

\* The role under which a party rates: the seller's fields or the buyer's.
RoleOf(a) == IF isSeller(a) THEN "seller" ELSE "buyer"

RatingOf(d, role) == IF role = "seller" THEN deals[d].seller_rating ELSE deals[d].buyer_rating

ReviewOf(d, role) == IF role = "seller" THEN deals[d].seller_review ELSE deals[d].buyer_review

\* bot.callbackQuery(/^rate_(.+)_(\d)$/), up to its update: the deal's status
\* is not looked at, and the field looked at is the role's rating
RateStart(a, d, rating) ==
    IF ~Exists(d) THEN Reply("rate", a, d, "rejected")
    ELSE IF ~isSeller(a) /\ ~isBuyer(a) THEN Reply("rate", a, d, "rejected")
    ELSE IF RatingOf(d, RoleOf(a)) # 0 THEN Reply("rate", a, d, "rejected")
    ELSE Begin(Handler("rate", a, d, "write", rating, "-"))

\* rate_: update({ [field]: rating }); the result is not looked at
RateWrite(h) ==
    /\ h.op = "rate" /\ h.pc = "write"
    /\ \/ /\ deals' = UpdateDeal(h.d, IF isSeller(h.actor)
                                      THEN [seller_rating |-> h.arg]
                                      ELSE [buyer_rating |-> h.arg])
          /\ last' = Event("rate", h.actor, h.d, "applied")
       \/ \* the update returns an error
          /\ last' = Event("rate", h.actor, h.d, "unsaved")
          /\ UNCHANGED deals
    /\ Done(h)
    /\ UNCHANGED <<chain, moderators, evidence, admin_logs, polls, page>>

\* bot.command('review'), up to its update: the field looked at is the
\* role's review
ReviewStart(a, d, rating, comment) ==
    IF ~Exists(d) THEN Reply("review", a, d, "rejected")
    ELSE IF deals[d].status \notin {"completed", "refunded"} THEN Reply("review", a, d, "rejected")
    ELSE IF ~isSeller(a) /\ ~isBuyer(a) THEN Reply("review", a, d, "rejected")
    ELSE IF ReviewOf(d, RoleOf(a)) # "null" THEN Reply("review", a, d, "rejected")
    ELSE Begin(Handler("review", a, d, "write", rating, comment))

\* review: update({ [field]: comment, [role_rating]: rating }); the result is
\* not looked at
ReviewWrite(h) ==
    /\ h.op = "review" /\ h.pc = "write"
    /\ \/ /\ deals' = UpdateDeal(h.d, IF isSeller(h.actor)
                                      THEN [seller_review |-> h.aux, seller_rating |-> h.arg]
                                      ELSE [buyer_review |-> h.aux, buyer_rating |-> h.arg])
          /\ last' = Event("review", h.actor, h.d, "applied")
       \/ \* the update returns an error
          /\ last' = Event("review", h.actor, h.d, "unsaved")
          /\ UNCHANGED deals
    /\ Done(h)
    /\ UNCHANGED <<chain, moderators, evidence, admin_logs, polls, page>>

\* -------------------------------------------------------------- evidence

\* bot.command('evidence') (kind "text") and bot.on('message:photo') (kind
\* "photo"), up to isAnyAdmin
EvidenceStart(a, d, kind) ==
    IF ~Exists(d) THEN Reply("evidence", a, d, "rejected")
    ELSE IF deals[d].status # "disputed" THEN Reply("evidence", a, d, "rejected")
    ELSE Len(evidence) < MaxEvidence /\ Begin(Handler("evidence", a, d, "insert", kind, "-"))

\* evidence: isAnyAdmin, then insert into evidence
EvidenceInsert(h) ==
    /\ h.op = "evidence" /\ h.pc = "insert"
    /\ IF ~isSeller(h.actor) /\ ~isBuyer(h.actor) /\ isAnyAdmin(h.actor) = "none"
       THEN /\ last' = Event("evidence", h.actor, h.d, "rejected")
            /\ UNCHANGED evidence
       ELSE \/ /\ Len(evidence) < MaxEvidence
               /\ evidence' = Append(evidence,
                     [deal_id |-> h.d,
                      telegram_id |-> h.actor,
                      role |-> IF isSeller(h.actor) THEN "Seller"
                               ELSE IF isBuyer(h.actor) THEN "Buyer" ELSE "Admin",
                      file_type |-> h.arg])
               /\ last' = Event("evidence", h.actor, h.d, "inserted")
            \/ \* the insert returns an error
               /\ last' = Event("evidence", h.actor, h.d, "failed")
               /\ UNCHANGED evidence
    /\ Done(h)
    /\ UNCHANGED <<deals, chain, moderators, admin_logs, polls, page>>

\* The rows of evidence that belong to deal d.
EvidenceOf(d) == {i \in 1..Len(evidence) : evidence[i].deal_id = d}

\* bot.command('viewevidence'): the reply lists the deal's evidence
ViewEvidence(a, d) ==
    IF ~Exists(d) THEN Reply("viewevidence", a, d, "rejected")
    ELSE IF ~isSeller(a) /\ ~isBuyer(a) /\ isAnyAdmin(a) = "none"
         THEN Reply("viewevidence", a, d, "rejected")
    ELSE IF isAnyAdmin(a) = "moderator" /\ deals[d].assigned_to # a
         THEN Reply("viewevidence", a, d, "rejected")
    ELSE \/ \* the select returns an error
            Reply("viewevidence", a, d, "failed")
         \/ EvidenceOf(d) = {} /\ Reply("viewevidence", a, d, "empty")
         \/ EvidenceOf(d) # {} /\ Reply("viewevidence", a, d, "shown")

\* ------------------------------------------------------------ moderators

\* The rows of moderators other than those of m.
OtherRows(m) == {r \in moderators : r.telegram_id # m}

\* update({ is_active: v }) on the rows of m; a row that is not there is not made
SetActive(m, v) ==
    {IF r.telegram_id = m THEN [r EXCEPT !.is_active = v] ELSE r : r \in moderators}

\* removemod that deletes the row instead of update({ is_active: false })
RemoveMod_Delete(a, m) ==
    IF ~isBotmaster(a) THEN Reply("removemod", a, "-", "rejected")
    ELSE /\ moderators' = OtherRows(m)
         /\ Logged("removemod", a, "-", "applied", "remove_mod")
         /\ UNCHANGED <<deals, chain, evidence, inflight, polls, page>>

\* bot.command('addmod'): insert({ telegram_id, is_active: true }); on the
\* duplicate key 23505, update({ is_active: true }) of the row that is there
AddMod(a, m) ==
    IF ~isBotmaster(a) THEN Reply("addmod", a, "-", "rejected")
    ELSE \/ /\ moderators' = OtherRows(m) \cup {ActiveRow(m)}
            /\ Logged("addmod", a, "-", "applied", "add_mod")
            /\ UNCHANGED <<deals, chain, evidence, inflight, polls, page>>
         \/ \* the insert or the update returns an error
            Reply("addmod", a, "-", "failed")

\* bot.command('removemod'): update({ is_active: false })
RemoveMod(a, m) ==
    IF ~isBotmaster(a) THEN Reply("removemod", a, "-", "rejected")
    ELSE \/ /\ moderators' = SetActive(m, FALSE)
            /\ Logged("removemod", a, "-", "applied", "remove_mod")
            /\ UNCHANGED <<deals, chain, evidence, inflight, polls, page>>
         \/ \* the update returns an error
            Reply("removemod", a, "-", "failed")

\* ---------------------------------------------------------------- assign

\* assign without the check of the deal's status
AssignStart_AnyStatus(a, d, m) ==
    IF ~isBotmaster(a) THEN Reply("assign", a, d, "rejected")
    ELSE IF ~Exists(d) THEN Reply("assign", a, d, "rejected")
    ELSE Begin(Handler("assign", a, d, "write", m, "-"))

\* bot.command('assign'), up to its update
AssignStart(a, d, m) ==
    IF ~isBotmaster(a) THEN Reply("assign", a, d, "rejected")
    ELSE IF ~Exists(d) THEN Reply("assign", a, d, "rejected")
    ELSE IF deals[d].status # "disputed" THEN Reply("assign", a, d, "rejected")
    ELSE Begin(Handler("assign", a, d, "write", m, "-"))

\* assign: update({ assigned_to_telegram_id, assigned_to_username, ... })
AssignWrite(h) ==
    /\ h.op = "assign" /\ h.pc = "write"
    /\ \/ /\ deals' = UpdateDeal(h.d, [assigned_to |-> h.arg])
          /\ Logged("assign", h.actor, h.d, "applied", "assign")
          /\ Notices(h)
       \/ \* the update returns an error
          /\ last' = Event("assign", h.actor, h.d, "failed")
          /\ UNCHANGED <<deals, admin_logs>>
          /\ Done(h)
    /\ UNCHANGED <<chain, moderators, evidence, polls, page>>

\* bot.command('unassign'), up to its update
UnassignStart(a, d) ==
    IF ~isBotmaster(a) THEN Reply("unassign", a, d, "rejected")
    ELSE IF ~Exists(d) THEN Reply("unassign", a, d, "rejected")
    ELSE Begin(Handler("unassign", a, d, "write", "-", "-"))

\* unassign: update({ assigned_to_telegram_id: null, assigned_to_username: null }),
\* whose result is not looked at, then logAdminAction
UnassignWrite(h) ==
    /\ h.op = "unassign" /\ h.pc = "write"
    /\ \/ /\ deals' = UpdateDeal(h.d, [assigned_to |-> "none"])
          /\ Logged("unassign", h.actor, h.d, "applied", "unassign")
       \/ \* the update returns an error
          /\ UNCHANGED deals
          /\ last' = Event("unassign", h.actor, h.d, "unsaved")
          /\ \/ /\ Len(admin_logs) < MaxLogs
                /\ admin_logs' = Append(admin_logs, LogEntry("unassign", h.d, h.actor))
             \/ UNCHANGED admin_logs
    /\ Done(h)
    /\ UNCHANGED <<chain, moderators, evidence, polls, page>>

\* ------------------------------------------------------------------- msg

\* The checks of msg and resolve on the deal they read.
ModeratorScopeOk(a, d) ==
    ~(isAnyAdmin(a) = "moderator" /\ deals[d].assigned_to # a)

\* bot.command('msg'): to the seller it sends at once, to the buyer after a
\* lookup of the buyer's id
MsgStart(a, d, target) ==
    IF isAnyAdmin(a) = "none" THEN Reply("msg", a, d, "rejected")
    ELSE IF ~Exists(d) THEN Reply("msg", a, d, "rejected")
    ELSE IF ~ModeratorScopeOk(a, d) THEN Reply("msg", a, d, "rejected")
    ELSE IF target = "seller"
         THEN /\ \/ Logged("msg", a, d, "sent", "msg")
                 \/ \* sendMessage throws
                    last' = Event("msg", a, d, "failed") /\ UNCHANGED admin_logs
              /\ UNCHANGED <<deals, chain, moderators, evidence, inflight, polls, page>>
    ELSE Begin(Handler("msg", a, d, "send", target, "-"))

\* msg: bot.api.sendMessage to the buyer
MsgSend(h) ==
    /\ h.op = "msg" /\ h.pc = "send"
    /\ \/ Logged("msg", h.actor, h.d, "sent", "msg")
       \/ last' = Event("msg", h.actor, h.d, "failed") /\ UNCHANGED admin_logs
    /\ Done(h)
    /\ UNCHANGED <<deals, chain, moderators, evidence, polls, page>>

\* ------------------------------------------------------------- broadcast

\* bot.command('broadcast'): notifyParties, which catches what its messages
\* throw, then logAdminAction
Broadcast(a, d) ==
    IF isAnyAdmin(a) = "none" THEN Reply("broadcast", a, d, "rejected")
    ELSE IF ~Exists(d) THEN Reply("broadcast", a, d, "rejected")
    ELSE /\ Logged("broadcast", a, d, "sent", "broadcast")
         /\ UNCHANGED <<deals, chain, moderators, evidence, inflight, polls, page>>

\* --------------------------------------------------------------- resolve

\* bot.command('resolve'), up to getOnChainStatus
ResolveStart(a, d, decision) ==
    IF isAnyAdmin(a) = "none" THEN Reply("resolve", a, d, "rejected")
    ELSE IF ~Exists(d) THEN Reply("resolve", a, d, "rejected")
    ELSE IF deals[d].status # "disputed" THEN Reply("resolve", a, d, "rejected")
    ELSE IF ~ModeratorScopeOk(a, d) THEN Reply("resolve", a, d, "rejected")
    ELSE Begin(Handler("resolve", a, d, "onchain", decision, "-"))

\* resolve: getOnChainStatus, then resolveRelease or refund and
\* waitWithTimeout(tx) when the deal exists on the ledger.  aux: what happened.
ResolveOnChain(h) ==
    /\ h.op = "resolve" /\ h.pc = "onchain"
    /\ \/ \* getOnChainStatus catches a failed read: { exists: false, error }
          UNCHANGED chain /\ Goto(h, "write", "lookup_failed")
       \/ ~getOnChainStatus(h.d).exists /\ UNCHANGED chain /\ Goto(h, "write", "absent")
       \/ getOnChainStatus(h.d).exists /\ chainResolve(h.d, h.arg) /\ Goto(h, "write", "confirmed")
       \/ \* the transaction throws, reverts or times out
          getOnChainStatus(h.d).exists /\ UNCHANGED chain /\ Goto(h, "write", "tx_failed")
    /\ Quiet /\ UNCHANGED <<deals, moderators, evidence, admin_logs, polls, page>>

\* resolve with a logAdminAction that lets the failure of its insert escape:
\* the status is stored and the handler stops before its confirmation
ResolveWrite_LogThrows(h) ==
    /\ h.op = "resolve" /\ h.pc = "write"
    /\ \/ /\ deals' = UpdateDeal(h.d, [status |-> IF h.arg = "release" THEN "completed"
                                                  ELSE "refunded"])
          /\ \/ /\ admin_logs' = IF Len(admin_logs) < MaxLogs
                                  THEN Append(admin_logs, LogEntry("resolve", h.d, h.actor))
                                  ELSE admin_logs
                /\ last' = Event("resolve", h.actor, h.d, "applied")
                /\ Notices(h)
             \/ /\ UNCHANGED admin_logs
                /\ last' = Event("resolve", h.actor, h.d, "failed")
                /\ Done(h)
       \/ /\ last' = Event("resolve", h.actor, h.d, "failed")
          /\ UNCHANGED <<deals, admin_logs>>
          /\ Done(h)
    /\ UNCHANGED <<chain, moderators, evidence, polls, page>>

\* resolve: update({ status: newStatus, resolved_by, completed_at })
ResolveWrite(h) ==
    /\ h.op = "resolve" /\ h.pc = "write"
    /\ \/ /\ deals' = UpdateDeal(h.d, [status |-> IF h.arg = "release" THEN "completed"
                                                  ELSE "refunded"])
          /\ Logged("resolve", h.actor, h.d, "applied", "resolve")
          /\ Notices(h)
       \/ \* the update returns an error
          /\ last' = Event("resolve", h.actor, h.d, "failed")
          /\ UNCHANGED <<deals, admin_logs>>
          /\ Done(h)
    /\ UNCHANGED <<chain, moderators, evidence, polls, page>>

\* ------------------------------------------- ledger calls without answer

\* A handler awaits externalIdToDealId, deals(chainId) or the submission of
\* createDeal, dispute, resolveRelease or refund, and the call never
\* settles: only tx.wait() goes through waitWithTimeout, so the await has no
\* end and the handler stays where it is.
LedgerCallStalls(h) ==
    /\ h.op \in {"fund", "dispute", "resolve"} /\ h.pc = "onchain"
    /\ Goto(h, "stalled", h.aux)
    /\ Quiet /\ UNCHANGED <<deals, chain, moderators, evidence, admin_logs, polls, page>>

\* The same in a pollDeals cycle, at the ledger reads of one of its loops.
PollLedgerCallStalls(p) ==
    /\ p.pc \in {"pending", "funded"} /\ p.todo # <<>>
    /\ PollStep(p, [p EXCEPT !.pc = "stalled"])
    /\ Quiet /\ UNCHANGED <<deals, chain, moderators, evidence, admin_logs, inflight, page>>

\* ---------------------------------------------------------- specification

\* The deal lifecycle: creation, anchoring and funding, cancel, dispute,
\* cancel-dispute and resolution by a botmaster, with pollDeals and the ledger.
\* Handlers run concurrently with each other and with pollDeals.
Parties == {Seller, Buyer}

Next ==
    \/ \E d \in DealIds, amount \in Amounts : New(Seller, d, amount)
    \/ \E d \in DealIds : Deposit(d)
    \/ \E d \in DealIds : WebRelease(d)
    \/ \E d \in DealIds : FundStart(Buyer, d)
    \/ \E h \in inflight : FundOnChain(h)
    \/ \E h \in inflight : FundWrite(h)
    \/ \E a \in Parties, d \in DealIds : CancelStart(a, d)
    \/ \E d \in DealIds : CancelButton(Seller, d)
    \/ \E h \in inflight : CancelWrite(h)
    \/ \E a \in Parties \cup {Outsider}, d \in DealIds, reason \in Reasons :
          DisputeStart(a, d, reason)
    \/ \E h \in inflight : DisputeOnChain(h)
    \/ \E h \in inflight : DisputeWrite(h)
    \/ \E a \in {Buyer} \cup BOTMASTER_IDS, d \in DealIds : CancelDisputeStart(a, d)
    \/ \E h \in inflight : CancelDisputeWrite(h)
    \/ \E a \in BOTMASTER_IDS, d \in DealIds, decision \in Decisions :
          ResolveStart(a, d, decision)
    \/ \E h \in inflight : ResolveOnChain(h)
    \/ \E h \in inflight : ResolveWrite(h)
    \/ PollStart
    \/ \E p \in polls : PollPendingChain(p)
    \/ \E p \in polls : PollPendingWrite(p)
    \/ \E p \in polls : PollFetchFunded(p)
    \/ \E p \in polls : PollFundedChain(p)
    \/ \E p \in polls : PollFundedWrite(p)
    \/ \E p \in polls : PollRemind(p)
    \/ \E h \in inflight : Notify(h)
    \/ \E p \in polls : PollNotify(p)

Spec == Init /\ [][Next]_vars

\* The dispute workflow on one funded deal: dispute, evidence, moderator
\* grants, assignment, messages to the parties, cancel-dispute and resolution
\* by botmaster and moderators.  It starts where the lifecycle above has
\* brought a deal to funded, anchored on the ledger, with nothing in flight.
FundedDeal ==
    [status |-> "funded",
     amount |-> DealAmount,
     contract_deal_id |-> TRUE,
     disputed_by |-> "none",
     dispute_reason |-> "none",
     assigned_to |-> "none",
     funded_at |-> "recent",
     release_reminder_sent |-> FALSE,
     seller_rating |-> 0,
     seller_review |-> "null",
     buyer_rating |-> 0,
     buyer_review |-> "null"]

InitDispute ==
    /\ deals = [d \in DealIds |-> FundedDeal]
    /\ chain = [d \in DealIds |-> [id |-> 1, status |-> ChainFunded]]
    /\ moderators = {}
    /\ evidence = <<>>
    /\ admin_logs = <<>>
    /\ inflight = {}
    /\ polls = {}
    /\ last = NoEvent
    /\ page = Loaded("none")

\* Moderation: grants, assignment, messages and resolution around a dispute.
NextModeration ==
    \/ \E a \in BOTMASTER_IDS, m \in ModCandidates : Idle /\ AddMod(a, m)
    \/ \E a \in BOTMASTER_IDS : RemoveMod(a, "m1")
    \/ \E d \in DealIds, reason \in Reasons : Idle /\ DisputeStart(Buyer, d, reason)
    \/ \E h \in inflight : DisputeOnChain(h)
    \/ \E h \in inflight : DisputeWrite(h)
    \/ \E a \in BOTMASTER_IDS, d \in DealIds, m \in ModCandidates : AssignStart(a, d, m)
    \/ \E h \in inflight : AssignWrite(h)
    \/ \E a \in BOTMASTER_IDS, d \in DealIds : Idle /\ UnassignStart(a, d)
    \/ \E h \in inflight : UnassignWrite(h)
    \/ \E a \in {"m1", Outsider}, d \in DealIds : ResolveStart(a, d, "release")
    \/ \E h \in inflight : ResolveOnChain(h)
    \/ \E h \in inflight : ResolveWrite(h)
    \/ \E d \in DealIds : MsgStart("m2", d, "buyer")
    \/ \E h \in inflight : MsgSend(h)
    \/ \E h \in inflight : Notify(h)

SpecModeration == InitDispute /\ [][NextModeration]_vars

\* Evidence: submissions while the dispute is opened, cancelled and resolved.
NextEvidence ==
    \/ \E d \in DealIds, reason \in Reasons : DisputeStart(Buyer, d, reason)
    \/ \E h \in inflight : DisputeOnChain(h)
    \/ \E h \in inflight : DisputeWrite(h)
    \/ \E a \in {Buyer} \cup BOTMASTER_IDS, d \in DealIds : CancelDisputeStart(a, d)
    \/ \E h \in inflight : CancelDisputeWrite(h)
    \/ \E a \in BOTMASTER_IDS, d \in DealIds, decision \in Decisions :
          ResolveStart(a, d, decision)
    \/ \E h \in inflight : ResolveOnChain(h)
    \/ \E h \in inflight : ResolveWrite(h)
    \/ \E a \in {Seller, Outsider} \cup BOTMASTER_IDS, d \in DealIds, kind \in {"text", "photo"} :
          EvidenceStart(a, d, kind)
    \/ \E h \in inflight : EvidenceInsert(h)
    \/ \E h \in inflight : Notify(h)

SpecEvidence == InitDispute /\ [][NextEvidence]_vars

\* Opening and withdrawing disputes, by every kind of sender, on a deal in
\* every stage between creation and dispute.  The dispute and canceldispute
\* handlers overlap with each other and with a running pollDeals cycle; /new,
\* /fund and the timer of pollDeals come when nothing else is under way.
NextDisputes ==
    \/ \E d \in DealIds : Idle /\ New(Seller, d, DealAmount)
    \/ \E d \in DealIds : Deposit(d)
    \/ \E d \in DealIds : Idle /\ FundStart(Buyer, d)
    \/ \E h \in inflight : FundOnChain(h)
    \/ \E h \in inflight : FundWrite(h)
    \/ \E a \in Parties \cup {Outsider}, d \in DealIds, reason \in Reasons :
          DisputeStart(a, d, reason)
    \/ \E h \in inflight : DisputeOnChain(h)
    \/ \E h \in inflight : DisputeWrite(h)
    \/ \E a \in Parties \cup BOTMASTER_IDS, d \in DealIds : CancelDisputeStart(a, d)
    \/ \E h \in inflight : CancelDisputeWrite(h)
    \/ Idle /\ PollStart
    \/ \E p \in polls : PollPendingChain(p)
    \/ \E p \in polls : PollPendingWrite(p)
    \/ \E p \in polls : PollFetchFunded(p)
    \/ \E p \in polls : PollFundedChain(p)
    \/ \E p \in polls : PollFundedWrite(p)
    \/ \E p \in polls : PollRemind(p)
    \/ \E d \in DealIds : WebRelease(d)
    \/ \E h \in inflight : Notify(h)
    \/ \E p \in polls : PollNotify(p)

SpecDisputes == Init /\ [][NextDisputes]_vars

\* Anchoring a deal on the ledger: /new, overlapping /fund attempts by any
\* party, the buyer's deposit and release on the web page, the seller's
\* /cancel and pollDeals.
NextFund ==
    \/ \E d \in DealIds : Idle /\ New(Seller, d, DealAmount)
    \/ \E a \in Parties \cup {Outsider}, d \in DealIds : FundStart(a, d)
    \/ \E h \in inflight : FundOnChain(h)
    \/ \E h \in inflight : FundWrite(h)
    \/ \E d \in DealIds : Idle /\ CancelStart(Seller, d)
    \/ \E h \in inflight : CancelWrite(h)
    \/ \E d \in DealIds : Deposit(d)
    \/ \E d \in DealIds : WebRelease(d)
    \/ Idle /\ PollStart
    \/ \E p \in polls : PollPendingChain(p)
    \/ \E p \in polls : PollPendingWrite(p)
    \/ \E p \in polls : PollFetchFunded(p)
    \/ \E p \in polls : PollFundedChain(p)
    \/ \E p \in polls : PollFundedWrite(p)
    \/ \E p \in polls : PollRemind(p)
    \/ \E p \in polls : PollNotify(p)

SpecFund == Init /\ [][NextFund]_vars

\* The admin commands that the audit log is about, one command at a time, on
\* a funded deal: a dispute by the buyer, then grants, assignment, messages,
\* broadcast, cancel-dispute and resolution.
NextAudit ==
    \/ \E d \in DealIds, reason \in Reasons : Idle /\ DisputeStart(Buyer, d, reason)
    \/ \E h \in inflight : DisputeOnChain(h)
    \/ \E h \in inflight : DisputeWrite(h)
    \/ \E a \in BOTMASTER_IDS, m \in {"m1"} : Idle /\ AddMod(a, m)
    \/ \E a \in BOTMASTER_IDS, m \in {"m1"} : Idle /\ RemoveMod(a, m)
    \/ \E a \in BOTMASTER_IDS, d \in DealIds, m \in {"m1"} :
          Idle /\ AssignStart(a, d, m)
    \/ \E h \in inflight : AssignWrite(h)
    \/ \E a \in BOTMASTER_IDS, d \in DealIds : Idle /\ UnassignStart(a, d)
    \/ \E h \in inflight : UnassignWrite(h)
    \/ \E a \in BOTMASTER_IDS \cup {"m1"}, d \in DealIds,
          target \in {"seller", "buyer"} : Idle /\ MsgStart(a, d, target)
    \/ \E h \in inflight : MsgSend(h)
    \/ \E a \in BOTMASTER_IDS \cup {Outsider}, d \in DealIds : Idle /\ Broadcast(a, d)
    \/ \E a \in {Buyer} \cup BOTMASTER_IDS, d \in DealIds : Idle /\ CancelDisputeStart(a, d)
    \/ \E h \in inflight : CancelDisputeWrite(h)
    \/ \E a \in BOTMASTER_IDS \cup {"m1"}, d \in DealIds, decision \in Decisions :
          Idle /\ ResolveStart(a, d, decision)
    \/ \E h \in inflight : ResolveOnChain(h)
    \/ \E h \in inflight : ResolveWrite(h)
    \/ \E h \in inflight : Notify(h)

SpecAudit == InitDispute /\ [][NextAudit]_vars

\* Ratings and reviews on a deal that the buyer released: the rate_ button
\* and /review from the seller, the buyer and a third user; the handlers
\* overlap.
Ratings == {1, 5}

Comments == {"No comment"}

InitReview ==
    /\ deals = [d \in DealIds |-> [FundedDeal EXCEPT !.status = "completed"]]
    /\ chain = [d \in DealIds |-> [id |-> 1, status |-> ChainCompleted]]
    /\ moderators = {}
    /\ evidence = <<>>
    /\ admin_logs = <<>>
    /\ inflight = {}
    /\ polls = {}
    /\ last = NoEvent
    /\ page = Loaded("none")

NextReview ==
    \/ \E a \in Parties \cup {Outsider}, d \in DealIds, rating \in Ratings :
          RateStart(a, d, rating)
    \/ \E h \in inflight : RateWrite(h)
    \/ \E a \in Parties \cup {Outsider}, d \in DealIds, rating \in Ratings, comment \in Comments :
          ReviewStart(a, d, rating, comment)
    \/ \E h \in inflight : ReviewWrite(h)

SpecReview == InitReview /\ [][NextReview]_vars

\* Release links: /release and the release_ button from the buyer, the seller
\* and a third user, on a deal taken through its lifecycle by one handler or
\* one pollDeals cycle at a time.
NextRelease ==
    \/ \E a \in Parties \cup {Outsider}, d \in DealIds, confirm \in BOOLEAN :
          ReleaseCommand(a, d, confirm)
    \/ \E a \in Parties \cup {Outsider}, d \in DealIds : ReleaseButton(a, d)
    \/ \E d \in DealIds : New(Seller, d, DealAmount)
    \/ \E d \in DealIds : Deposit(d)
    \/ \E d \in DealIds : WebRelease(d)
    \/ \E d \in DealIds : Idle /\ FundStart(Buyer, d)
    \/ \E h \in inflight : FundOnChain(h)
    \/ \E h \in inflight : FundWrite(h)
    \/ \E d \in DealIds : Idle /\ CancelStart(Seller, d)
    \/ \E h \in inflight : CancelWrite(h)
    \/ \E d \in DealIds, reason \in Reasons : Idle /\ DisputeStart(Buyer, d, reason)
    \/ \E h \in inflight : DisputeOnChain(h)
    \/ \E h \in inflight : DisputeWrite(h)
    \/ \E a \in BOTMASTER_IDS, d \in DealIds, decision \in Decisions :
          Idle /\ ResolveStart(a, d, decision)
    \/ \E h \in inflight : ResolveOnChain(h)
    \/ \E h \in inflight : ResolveWrite(h)
    \/ Idle /\ PollStart
    \/ \E p \in polls : PollPendingChain(p)
    \/ \E p \in polls : PollPendingWrite(p)
    \/ \E p \in polls : PollFetchFunded(p)
    \/ \E p \in polls : PollFundedChain(p)
    \/ \E p \in polls : PollFundedWrite(p)
    \/ \E p \in polls : PollRemind(p)
    \/ \E h \in inflight : Notify(h)
    \/ \E p \in polls : PollNotify(p)

SpecRelease == Init /\ [][NextRelease]_vars

\* pollDeals over two deals anchored on the ledger and awaiting their deposit:
\* deposits and releases on the ledger, the passing of 24 hours, and the
\* cycles the 30-second timer starts.
PollDealIds == DealIds \cup {"DP-2"}

AnchoredDeal == [FundedDeal EXCEPT !.status = "pending_deposit", !.funded_at = "null"]

InitPoll ==
    /\ deals = [d \in PollDealIds |-> AnchoredDeal]
    /\ chain = [d \in PollDealIds |-> [id |-> 1, status |-> ChainPending]]
    /\ moderators = {}
    /\ evidence = <<>>
    /\ admin_logs = <<>>
    /\ inflight = {}
    /\ polls = {}
    /\ last = NoEvent
    /\ page = Loaded("none")

NextPoll ==
    \/ \E d \in PollDealIds : Deposit(d)
    \/ \E d \in PollDealIds : WebRelease(d)
    \/ \E d \in PollDealIds : Tick(d)
    \/ PollStart
    \/ \E p \in polls : PollPendingChain(p)
    \/ \E p \in polls : PollPendingWrite(p)
    \/ \E p \in polls : PollFetchFunded(p)
    \/ \E p \in polls : PollFundedChain(p)
    \/ \E p \in polls : PollFundedWrite(p)
    \/ \E p \in polls : PollRemind(p)
    \/ \E p \in polls : PollNotify(p)

SpecPoll == InitPoll /\ [][NextPoll]_vars

\* The same with one cycle at a time: the timer fires after the previous
\* cycle has ended.
NextPollSerial ==
    \/ \E d \in PollDealIds : Deposit(d)
    \/ \E d \in PollDealIds : WebRelease(d)
    \/ \E d \in PollDealIds : Tick(d)
    \/ Idle /\ PollStart
    \/ \E p \in polls : PollPendingChain(p)
    \/ \E p \in polls : PollPendingWrite(p)
    \/ \E p \in polls : PollFetchFunded(p)
    \/ \E p \in polls : PollFundedChain(p)
    \/ \E p \in polls : PollFundedWrite(p)
    \/ \E p \in polls : PollRemind(p)
    \/ \E p \in polls : PollNotify(p)

SpecPollSerial == InitPoll /\ [][NextPollSerial]_vars

\* ---------------------------------------------------------- the web page

\* The wallet the ledger holds as the deal's buyer (deal[2]).
buyerOf(d) == IF d = "DP-1" THEN "0xB1" ELSE "0xB2"

Wallets == {buyerOf(d) : d \in PollDealIds}

\* searchDeal, started from the search form (its button is disabled while a
\* search runs) or by init: both ledger reads, then everything up to the end
\* in one piece.  A failed read and a code the ledger does not know only
\* raise an alert.
searchDeal(d) ==
    LET action == IF page.action_param = "release" THEN "release" ELSE "deposit"
        status == chain[d].status
    IN  /\ "search-section" \notin page.hidden
        /\ \/ UNCHANGED page
           \/ ~OnLedger(d) /\ UNCHANGED page
           \/ /\ OnLedger(d)
              /\ IF action = "release" /\ status # ChainFunded
                 THEN page' = [page EXCEPT !.action = action]
                 ELSE page' = [page EXCEPT
                         !.action = action,
                         !.deal = [id |-> d, status |-> status, buyer |-> buyerOf(d)],
                         !.hidden =
                            IF (action = "release" /\ status = ChainFunded)
                               \/ status = ChainPending
                            THEN (page.hidden \ {"deal-section"}) \cup {"search-section"}
                            ELSE (page.hidden \ {"deal-section"})
                                    \cup {"search-section", "connect-section"}]
        /\ Quiet
        /\ UNCHANGED <<deals, chain, moderators, evidence, admin_logs, inflight, polls>>

\* modal.subscribeProvider's callback, called with the wallet's address on
\* every change of the provider (connection, change of account) and with none
\* on disconnection.  With an address: the switch of network or getSigner may
\* fail and leave everything as it was; then state.address is set, and the
\* callback returns early when no deal is loaded or the wallet is not the
\* deal's buyer; in release mode it shows the action section with the release
\* button, in deposit mode (whatever the balance and allowance) the action
\* section.
subscribeProvider(address) ==
    /\ IF address # "null"
       THEN \/ UNCHANGED page
            \/ IF page.deal = NoDeal \/ address # page.deal.buyer
               THEN page' = [page EXCEPT !.address = address]
               ELSE page' = [page EXCEPT
                       !.address = address,
                       !.hidden = IF page.action = "release"
                                  THEN (page.hidden \ {"action-section", "release-btn"})
                                          \cup {"connect-section"}
                                  ELSE (page.hidden \ {"action-section"})
                                          \cup {"connect-section"}]
       ELSE page' = [page EXCEPT
               !.address = "null",
               !.hidden = IF "action-section" \notin page.hidden
                          THEN (page.hidden \cup {"action-section"}) \ {"connect-section"}
                          ELSE page.hidden]
    /\ Quiet
    /\ UNCHANGED <<deals, chain, moderators, evidence, admin_logs, inflight, polls>>

\* disconnectWallet
disconnectWallet ==
    /\ page' = [page EXCEPT
          !.address = "null",
          !.hidden = (page.hidden \cup {"action-section", "release-btn"})
                        \ {"connect-section"}]
    /\ Quiet
    /\ UNCHANGED <<deals, chain, moderators, evidence, admin_logs, inflight, polls>>

\* goBack: state.deal is kept.
goBack ==
    /\ page' = [page EXCEPT
          !.address = "null",
          !.action = "deposit",
          !.hidden = (page.hidden \cup {"deal-section", "action-section", "release-btn"})
                        \ {"search-section", "connect-section"}]
    /\ Quiet
    /\ UNCHANGED <<deals, chain, moderators, evidence, admin_logs, inflight, polls>>

\* The release button is on the screen.
ReleaseOffered ==
    {"deal-section", "action-section", "release-btn"} \cap page.hidden = {}

\* releaseFunds, by a click on the release button: escrow.release for
\* state.deal with the connected wallet; the ledger accepts it from the buyer
\* of a funded deal, and the page then shows the success section.
releaseFunds ==
    /\ ReleaseOffered
    /\ page.address # "null"
    /\ \/ /\ page.address = page.deal.buyer
          /\ chain[page.deal.id].status = ChainFunded
          /\ ChainSet(page.deal.id, ChainCompleted)
          /\ page' = [page EXCEPT
                !.hidden = (page.hidden \cup {"deal-section"}) \ {"success-section"}]
       \/ UNCHANGED <<chain, page>>
    /\ Quiet
    /\ UNCHANGED <<deals, moderators, evidence, admin_logs, inflight, polls>>

\* The page opened from a plain link or from the bot's release link, beside
\* two deals anchored on the ledger.
InitWeb ==
    /\ deals = [d \in PollDealIds |-> AnchoredDeal]
    /\ chain = [d \in PollDealIds |-> [id |-> 1, status |-> ChainPending]]
    /\ moderators = {}
    /\ evidence = <<>>
    /\ admin_logs = <<>>
    /\ inflight = {}
    /\ polls = {}
    /\ last = NoEvent
    /\ page \in {Loaded("none"), Loaded("release")}

\* The page's events in any order, while deposits and releases from other
\* browsers move the ledger.
NextWeb ==
    \/ \E d \in PollDealIds : searchDeal(d)
    \/ \E address \in Wallets \cup {"null"} : subscribeProvider(address)
    \/ disconnectWallet
    \/ goBack
    \/ releaseFunds
    \/ \E d \in PollDealIds : Deposit(d)
    \/ \E d \in PollDealIds : WebRelease(d)

SpecWeb == InitWeb /\ [][NextWeb]_vars

\* What a moderator may do on a disputed deal, one command at a time: two
\* moderators, one of them assigned, send resolve, msg, broadcast and
\* viewevidence.
NextScope ==
    \/ \E d \in DealIds, reason \in Reasons : Idle /\ DisputeStart(Buyer, d, reason)
    \/ \E h \in inflight : DisputeOnChain(h)
    \/ \E h \in inflight : DisputeWrite(h)
    \/ \E d \in DealIds : Idle /\ EvidenceStart(Buyer, d, "text")
    \/ \E h \in inflight : EvidenceInsert(h)
    \/ \E a \in BOTMASTER_IDS, m \in ModCandidates : Idle /\ AddMod(a, m)
    \/ \E a \in BOTMASTER_IDS, d \in DealIds : Idle /\ AssignStart(a, d, "m1")
    \/ \E h \in inflight : AssignWrite(h)
    \/ \E a \in ModCandidates, d \in DealIds : Idle /\ ResolveStart(a, d, "release")
    \/ \E h \in inflight : ResolveOnChain(h)
    \/ \E h \in inflight : ResolveWrite(h)
    \/ \E a \in ModCandidates, d \in DealIds, target \in {"seller", "buyer"} :
          Idle /\ MsgStart(a, d, target)
    \/ \E h \in inflight : MsgSend(h)
    \/ \E a \in ModCandidates, d \in DealIds : Idle /\ Broadcast(a, d)
    \/ \E a \in ModCandidates \cup {Buyer, Outsider}, d \in DealIds : Idle /\ ViewEvidence(a, d)
    \/ \E h \in inflight : Notify(h)

SpecScope == InitDispute /\ [][NextScope]_vars

\* One deal from deposit to resolution, one command or pollDeals cycle at a
\* time: the deposit, pollDeals, the buyer's dispute, a moderator grant, the
\* assignment, the moderator's refund, and release attempts throughout.  It
\* starts with the deal created and anchored on the ledger by /fund.
InitAnchored ==
    /\ deals = [d \in DealIds |-> AnchoredDeal]
    /\ chain = [d \in DealIds |-> [id |-> 1, status |-> ChainPending]]
    /\ moderators = {}
    /\ evidence = <<>>
    /\ admin_logs = <<>>
    /\ inflight = {}
    /\ polls = {}
    /\ last = NoEvent
    /\ page = Loaded("none")

NextEndToEnd ==
    \/ \E d \in DealIds : Deposit(d)
    \/ \E d \in DealIds : WebRelease(d)
    \/ Idle /\ PollStart
    \/ \E p \in polls : PollPendingChain(p)
    \/ \E p \in polls : PollPendingWrite(p)
    \/ \E p \in polls : PollFetchFunded(p)
    \/ \E p \in polls : PollFundedChain(p)
    \/ \E p \in polls : PollFundedWrite(p)
    \/ \E p \in polls : PollRemind(p)
    \/ \E d \in DealIds, reason \in Reasons : Idle /\ DisputeStart(Buyer, d, reason)
    \/ \E h \in inflight : DisputeOnChain(h)
    \/ \E h \in inflight : DisputeWrite(h)
    \/ \E a \in BOTMASTER_IDS : Idle /\ AddMod(a, "m1")
    \/ \E a \in BOTMASTER_IDS, d \in DealIds : Idle /\ AssignStart(a, d, "m1")
    \/ \E h \in inflight : AssignWrite(h)
    \/ \E d \in DealIds : Idle /\ ResolveStart("m1", d, "refund")
    \/ \E h \in inflight : ResolveOnChain(h)
    \/ \E h \in inflight : ResolveWrite(h)
    \/ \E a \in Parties, d \in DealIds, confirm \in BOOLEAN :
          Idle /\ ReleaseCommand(a, d, confirm)
    \/ \E a \in Parties, d \in DealIds : Idle /\ ReleaseButton(a, d)
    \/ \E h \in inflight : Notify(h)
    \/ \E p \in polls : PollNotify(p)

SpecEndToEnd == InitAnchored /\ [][NextEndToEnd]_vars

\* Ratings over a deal's life: from the anchored deal, the deposit and release
\* on the web page and pollDeals, one cycle at a time, while seller, buyer and
\* an outsider send rate_ callbacks and /review, one at a time.
NextRate ==
    \/ \E d \in DealIds : Deposit(d)
    \/ \E d \in DealIds : WebRelease(d)
    \/ polls = {} /\ PollStart
    \/ \E p \in polls : PollPendingChain(p)
    \/ \E p \in polls : PollPendingWrite(p)
    \/ \E p \in polls : PollFetchFunded(p)
    \/ \E p \in polls : PollFundedChain(p)
    \/ \E p \in polls : PollFundedWrite(p)
    \/ \E p \in polls : PollRemind(p)
    \/ \E p \in polls : PollNotify(p)
    \/ \E a \in Parties \cup {Outsider}, d \in DealIds, rating \in Ratings :
          Idle /\ RateStart(a, d, rating)
    \/ \E h \in inflight : RateWrite(h)
    \/ \E a \in Parties \cup {Outsider}, d \in DealIds, rating \in Ratings, comment \in Comments :
          Idle /\ ReviewStart(a, d, rating, comment)
    \/ \E h \in inflight : ReviewWrite(h)

SpecRate == InitAnchored /\ [][NextRate]_vars

\* The messages after a stored change: the buyer's dispute and its
\* withdrawal, the botmaster's assignment and resolution, one command at a
\* time, and pollDeals cycles beside them with funding, completion and the
\* 24-hour reminder.
NextNotices ==
    \/ \E d \in DealIds : Deposit(d)
    \/ \E d \in DealIds : WebRelease(d)
    \/ \E d \in DealIds : Tick(d)
    \/ polls = {} /\ PollStart
    \/ \E p \in polls : PollPendingChain(p)
    \/ \E p \in polls : PollPendingWrite(p)
    \/ \E p \in polls : PollFetchFunded(p)
    \/ \E p \in polls : PollFundedChain(p)
    \/ \E p \in polls : PollFundedWrite(p)
    \/ \E p \in polls : PollRemind(p)
    \/ \E p \in polls : PollNotify(p)
    \/ \E d \in DealIds, reason \in Reasons : inflight = {} /\ DisputeStart(Buyer, d, reason)
    \/ \E h \in inflight : DisputeOnChain(h)
    \/ \E h \in inflight : DisputeWrite(h)
    \/ \E d \in DealIds : inflight = {} /\ CancelDisputeStart(Buyer, d)
    \/ \E h \in inflight : CancelDisputeWrite(h)
    \/ \E a \in BOTMASTER_IDS, d \in DealIds : inflight = {} /\ AssignStart(a, d, "m1")
    \/ \E h \in inflight : AssignWrite(h)
    \/ \E a \in BOTMASTER_IDS, d \in DealIds, decision \in Decisions :
          inflight = {} /\ ResolveStart(a, d, decision)
    \/ \E h \in inflight : ResolveOnChain(h)
    \/ \E h \in inflight : ResolveWrite(h)
    \/ \E h \in inflight : Notify(h)

SpecNotices == InitAnchored /\ [][NextNotices]_vars

\* A deal the buyer has disputed and the botmaster has assigned to m1.
AssignedDeal ==
    [FundedDeal EXCEPT !.status = "disputed",
                       !.disputed_by = Buyer,
                       !.dispute_reason = "no delivery",
                       !.assigned_to = "m1"]

InitAssigned ==
    /\ deals = [d \in DealIds |-> AssignedDeal]
    /\ chain = [d \in DealIds |-> [id |-> 1, status |-> ChainDisputed]]
    /\ moderators = {[telegram_id |-> "m1", is_active |-> TRUE]}
    /\ evidence = <<>>
    /\ admin_logs = <<>>
    /\ inflight = {}
    /\ polls = {}
    /\ last = NoEvent
    /\ page = Loaded("none")

\* Assignment: botmaster, moderator and buyer send /assign while the buyer
\* withdraws the dispute and opens it again.
NextAssign ==
    \/ \E a \in BOTMASTER_IDS \cup {"m1", Buyer}, d \in DealIds, m \in ModCandidates :
          AssignStart(a, d, m)
    \/ \E h \in inflight : AssignWrite(h)
    \/ \E d \in DealIds : CancelDisputeStart(Buyer, d)
    \/ \E h \in inflight : CancelDisputeWrite(h)
    \/ \E d \in DealIds, reason \in Reasons : DisputeStart(Buyer, d, reason)
    \/ \E h \in inflight : DisputeOnChain(h)
    \/ \E h \in inflight : DisputeWrite(h)
    \/ \E h \in inflight : Notify(h)

SpecAssign == InitAssigned /\ [][NextAssign]_vars

\* Grants: the botmaster and m1 send /addmod and /removemod for m1 while m1,
\* the assignee of the disputed deal, and the buyer send the admin commands,
\* one command at a time.
NextGrants ==
    \/ \E a \in BOTMASTER_IDS \cup {"m1"} : Idle /\ AddMod(a, "m1")
    \/ \E a \in BOTMASTER_IDS \cup {"m1"} : Idle /\ RemoveMod(a, "m1")
    \/ \E d \in DealIds, decision \in Decisions : Idle /\ ResolveStart("m1", d, decision)
    \/ \E h \in inflight : ResolveOnChain(h)
    \/ \E h \in inflight : ResolveWrite(h)
    \/ \E d \in DealIds, target \in {"seller", "buyer"} : Idle /\ MsgStart("m1", d, target)
    \/ \E h \in inflight : MsgSend(h)
    \/ \E d \in DealIds : Idle /\ Broadcast("m1", d)
    \/ \E d \in DealIds : Idle /\ ViewEvidence("m1", d)
    \/ \E d \in DealIds : Idle /\ EvidenceStart("m1", d, "text")
    \/ \E h \in inflight : EvidenceInsert(h)
    \/ \E a \in {"m1", Buyer}, d \in DealIds : Idle /\ CancelDisputeStart(a, d)
    \/ \E h \in inflight : CancelDisputeWrite(h)
    \/ \E d \in DealIds, reason \in Reasons : Idle /\ DisputeStart(Buyer, d, reason)
    \/ \E h \in inflight : DisputeOnChain(h)
    \/ \E h \in inflight : DisputeWrite(h)
    \/ \E h \in inflight : Notify(h)

SpecGrants == InitAssigned /\ [][NextGrants]_vars

\* Ledger calls that may never answer: fund, dispute, resolve and pollDeals,
\* one at a time, each taking every step that it can take.
NextStall ==
    \/ \E d \in DealIds : Idle /\ New(Seller, d, DealAmount)
    \/ \E d \in DealIds : Deposit(d)
    \/ \E d \in DealIds : WebRelease(d)
    \/ \E d \in DealIds : Idle /\ FundStart(Buyer, d)
    \/ \E h \in inflight : FundOnChain(h)
    \/ \E h \in inflight : FundWrite(h)
    \/ \E d \in DealIds, reason \in Reasons : Idle /\ DisputeStart(Buyer, d, reason)
    \/ \E h \in inflight : DisputeOnChain(h)
    \/ \E h \in inflight : DisputeWrite(h)
    \/ \E a \in BOTMASTER_IDS, d \in DealIds, decision \in Decisions :
          Idle /\ ResolveStart(a, d, decision)
    \/ \E h \in inflight : ResolveOnChain(h)
    \/ \E h \in inflight : ResolveWrite(h)
    \/ Idle /\ PollStart
    \/ \E p \in polls : PollPendingChain(p)
    \/ \E p \in polls : PollPendingWrite(p)
    \/ \E p \in polls : PollFetchFunded(p)
    \/ \E p \in polls : PollFundedChain(p)
    \/ \E p \in polls : PollFundedWrite(p)
    \/ \E p \in polls : PollRemind(p)
    \/ \E h \in inflight : LedgerCallStalls(h)
    \/ \E p \in polls : PollLedgerCallStalls(p)
    \/ \E h \in inflight : Notify(h)
    \/ \E p \in polls : PollNotify(p)

FairStall ==
    /\ WF_vars(\E h \in inflight : FundOnChain(h))
    /\ WF_vars(\E h \in inflight : FundWrite(h))
    /\ WF_vars(\E h \in inflight : DisputeOnChain(h))
    /\ WF_vars(\E h \in inflight : DisputeWrite(h))
    /\ WF_vars(\E h \in inflight : ResolveOnChain(h))
    /\ WF_vars(\E h \in inflight : ResolveWrite(h))
    /\ WF_vars(\E p \in polls : PollPendingChain(p))
    /\ WF_vars(\E p \in polls : PollPendingWrite(p))
    /\ WF_vars(\E p \in polls : PollFetchFunded(p))
    /\ WF_vars(\E p \in polls : PollFundedChain(p))
    /\ WF_vars(\E p \in polls : PollFundedWrite(p))
    /\ WF_vars(\E p \in polls : PollRemind(p))
    /\ WF_vars(\E h \in inflight : Notify(h))
    /\ WF_vars(\E p \in polls : PollNotify(p))

SpecStall == Init /\ [][NextStall]_vars /\ FairStall

\* A pollDeals step in which the ledger reads succeed and report the deposit.
PollSeesDeposit(p) == PollPendingChain(p) /\ \E q \in polls' : q.pc = "pending_write"

\* A pollDeals step whose update to funded is stored.
PollStoresFunded(p) ==
    PollPendingWrite(p) /\ last' = Event("poll_funded", "poll", Head(p.todo).d, "applied")

\* Deposit detection: the buyer deposits and releases on the web page, the
\* seller may cancel, and setInterval starts a pollDeals cycle again and again
\* (here: whenever the previous one has ended).  Every step that is under way
\* is taken in the end; a ledger read that can succeed and an update that can
\* be stored do so in the end.
NextDetect ==
    \/ \E d \in DealIds : Deposit(d)
    \/ \E d \in DealIds : WebRelease(d)
    \/ \E d \in DealIds : CancelStart(Seller, d)
    \/ \E h \in inflight : CancelWrite(h)
    \/ polls = {} /\ PollStart
    \/ \E p \in polls : PollPendingChain(p)
    \/ \E p \in polls : PollPendingWrite(p)
    \/ \E p \in polls : PollFetchFunded(p)
    \/ \E p \in polls : PollFundedChain(p)
    \/ \E p \in polls : PollFundedWrite(p)
    \/ \E p \in polls : PollRemind(p)
    \/ \E p \in polls : PollNotify(p)

FairDetect ==
    /\ WF_vars(polls = {} /\ PollStart)
    /\ WF_vars(\E h \in inflight : CancelWrite(h))
    /\ WF_vars(\E p \in polls : PollPendingChain(p))
    /\ WF_vars(\E p \in polls : PollPendingWrite(p))
    /\ WF_vars(\E p \in polls : PollFetchFunded(p))
    /\ WF_vars(\E p \in polls : PollFundedChain(p))
    /\ WF_vars(\E p \in polls : PollFundedWrite(p))
    /\ WF_vars(\E p \in polls : PollRemind(p))
    /\ SF_vars(\E p \in polls : PollSeesDeposit(p))
    /\ SF_vars(\E p \in polls : PollStoresFunded(p))
    /\ WF_vars(\E p \in polls : PollNotify(p))

SpecDetect == InitAnchored /\ [][NextDetect]_vars /\ FairDetect

\* A pollDeals step in which the ledger reads succeed and report the release.
PollSeesRelease(p) == PollFundedChain(p) /\ \E q \in polls' : q.pc = "funded_write"

\* A pollDeals step whose update to completed is stored.
PollStoresCompleted(p) ==
    PollFundedWrite(p) /\ last' = Event("poll_completed", "poll", Head(p.todo).d, "applied")

\* Reflecting the ledger: the buyer deposits and releases on the web page and
\* may open a dispute in the bot, one command at a time, and setInterval starts
\* a pollDeals cycle again and again (here: whenever the previous one has
\* ended).  Every step that is under way is taken in the end; a ledger read
\* that can succeed and an update that can be stored do so in the end.
NextReflect ==
    \/ \E d \in DealIds : Deposit(d)
    \/ \E d \in DealIds : WebRelease(d)
    \/ \E d \in DealIds, reason \in Reasons : Idle /\ DisputeStart(Buyer, d, reason)
    \/ \E h \in inflight : DisputeOnChain(h)
    \/ \E h \in inflight : DisputeWrite(h)
    \/ \E h \in inflight : Notify(h)
    \/ polls = {} /\ PollStart
    \/ \E p \in polls : PollPendingChain(p)
    \/ \E p \in polls : PollPendingWrite(p)
    \/ \E p \in polls : PollFetchFunded(p)
    \/ \E p \in polls : PollFundedChain(p)
    \/ \E p \in polls : PollFundedWrite(p)
    \/ \E p \in polls : PollRemind(p)
    \/ \E p \in polls : PollNotify(p)

FairReflect ==
    /\ WF_vars(polls = {} /\ PollStart)
    /\ WF_vars(\E h \in inflight : DisputeOnChain(h))
    /\ WF_vars(\E h \in inflight : DisputeWrite(h))
    /\ WF_vars(\E h \in inflight : Notify(h))
    /\ WF_vars(\E p \in polls : PollPendingChain(p))
    /\ WF_vars(\E p \in polls : PollPendingWrite(p))
    /\ WF_vars(\E p \in polls : PollFetchFunded(p))
    /\ WF_vars(\E p \in polls : PollFundedChain(p))
    /\ WF_vars(\E p \in polls : PollFundedWrite(p))
    /\ WF_vars(\E p \in polls : PollRemind(p))
    /\ WF_vars(\E p \in polls : PollNotify(p))
    /\ SF_vars(\E p \in polls : PollSeesDeposit(p))
    /\ SF_vars(\E p \in polls : PollStoresFunded(p))
    /\ SF_vars(\E p \in polls : PollSeesRelease(p))
    /\ SF_vars(\E p \in polls : PollStoresCompleted(p))

SpecReflect == InitAnchored /\ [][NextReflect]_vars /\ FairReflect

\* ---------------------------------------------------------------- claims

Terminal == {"completed", "refunded", "cancelled"}

\* The declared edges of the status graph.
Edges ==
    {<<"pending_deposit", "funded">>, <<"pending_deposit", "cancelled">>,
     <<"funded", "disputed">>, <<"funded", "completed">>,
     <<"disputed", "funded">>, <<"disputed", "completed">>,
     <<"disputed", "refunded">>}

\* The status each status-changing write expects, from the check its
\* operation made on the deal it read.
Expected(op) ==
    CASE op = "cancel" -> "pending_deposit"
      [] op = "dispute" -> "funded"
      [] op = "canceldispute" -> "disputed"
      [] op = "resolve" -> "disputed"
      [] op = "pending_write" -> "pending_deposit"
      [] op = "funded_write" -> "funded"

StatusWriters == {"cancel", "dispute", "canceldispute", "resolve"}

\* The handler h takes its step.
Steps(h) == h \in inflight /\ h \notin inflight'

\* The pollDeals cycle p takes its step.
PollSteps(p) == p \in polls /\ p \notin polls'

StatusKept(d) == d \in DOMAIN deals' /\ deals'[d].status = deals[d].status

\* C1: every deal's status is one of the six statuses, and every change of a
\* deal's status follows a declared edge.
C1_EdgesOnly ==
    /\ [](\A d \in DOMAIN deals : deals[d].status \in Statuses)
    /\ [][\A d \in DOMAIN deals :
            StatusKept(d) \/ <<deals[d].status, deals'[d].status>> \in Edges]_vars

\* C2: completed, refunded and cancelled are terminal: no step changes a
\* deal's status once it is one of them.
C2_TerminalStays ==
    [][\A d \in DOMAIN deals : deals[d].status \in Terminal => StatusKept(d)]_vars

\* C3: of a pollDeals completion and an open-dispute that both read the deal
\* funded, the one that writes second finds the status the first wrote and
\* leaves it.
C3_OneWinner ==
    [][/\ \A p \in polls :
            (PollSteps(p) /\ p.pc = "funded_write"
                /\ deals[Head(p.todo).d].status = "disputed")
            => StatusKept(Head(p.todo).d)
       /\ \A h \in inflight :
            (Steps(h) /\ h.op = "dispute" /\ h.pc = "write"
                /\ deals[h.d].status = "completed")
            => StatusKept(h.d)]_vars

\* C4: a status-changing write is not applied when the persisted status is no
\* longer the one its operation read.
C4_ConditionalWrites ==
    [][/\ \A h \in inflight :
            (Steps(h) /\ h.op \in StatusWriters /\ h.pc = "write"
                /\ deals[h.d].status # Expected(h.op))
            => StatusKept(h.d)
       /\ \A p \in polls :
            (PollSteps(p) /\ p.pc \in {"pending_write", "funded_write"}
                /\ deals[Head(p.todo).d].status # Expected(p.pc))
            => StatusKept(Head(p.todo).d)]_vars

\* C5: when resolve's ledger transaction fails or times out, the write step
\* that follows leaves the local status disputed.
C5_FailedLedgerKeepsDisputed ==
    [][\A h \in inflight :
          (Steps(h) /\ h.op = "resolve" /\ h.pc = "write" /\ h.aux = "tx_failed")
          => StatusKept(h.d)]_vars

\* C6: for a deal on the ledger, local completed implies ledger Completed and
\* local refunded implies ledger Refunded.
C6_LocalNotPastLedger ==
    \A d \in DOMAIN deals :
        OnLedger(d) =>
            /\ deals[d].status = "completed" => chain[d].status = ChainCompleted
            /\ deals[d].status = "refunded" => chain[d].status = ChainRefunded

\* The handler h ends with the reply res.
Ends(h, res) == Steps(h) /\ last' = Event(h.op, h.actor, h.d, res)

\* C7: a resolve is applied only to a disputed deal, by a botmaster or by a
\* moderator who is the deal's assignee when the status is written; a
\* rejected resolve changes no deal and makes no ledger call.
C7_ResolveAuthorized ==
    [][/\ \A h \in inflight :
            (h.op = "resolve" /\ Ends(h, "applied"))
            => /\ deals[h.d].status = "disputed"
               /\ isAnyAdmin(h.actor) # "none"
               /\ ModeratorScopeOk(h.actor, h.d)
       /\ (last'.op = "resolve" /\ last'.res = "rejected")
            => UNCHANGED <<deals, chain>>]_vars

\* C8: once a deal is assigned to another moderator, no resolve and no
\* message to a party by the moderator it was taken from takes effect.
C8_OnlyAssigneeActs ==
    [][\A h \in inflight :
          (/\ h.op \in {"resolve", "msg"}
           /\ Ends(h, "applied") \/ Ends(h, "sent")
           /\ isAnyAdmin(h.actor) = "moderator")
          => deals[h.d].assigned_to \notin ModCandidates \ {h.actor}]_vars

\* C9: a dispute is taken up only from the seller or the buyer of a funded
\* deal; any other attempt is rejected and changes nothing; an applied dispute
\* stores its sender and reason and sets the status disputed; nothing else
\* changes the disputer or the reason.
C9_DisputeGuard ==
    [][/\ \A a \in Actors, d \in DealIds, reason \in Reasons :
            (/\ ~(Exists(d) /\ a \in {Seller, Buyer} /\ deals[d].status = "funded")
             /\ DisputeStart(a, d, reason))
            => /\ last' = Event("dispute", a, d, "rejected")
               /\ UNCHANGED <<deals, chain, inflight>>
       /\ \A h \in inflight' \ inflight :
            (h.op = "dispute" /\ h.pc = "onchain")
            => /\ h.actor \in {Seller, Buyer}
               /\ Exists(h.d) /\ deals[h.d].status = "funded"
       /\ \A h \in inflight :
            (h.op = "dispute" /\ Ends(h, "applied"))
            => /\ deals'[h.d].status = "disputed"
               /\ deals'[h.d].disputed_by = h.actor
               /\ deals'[h.d].dispute_reason = h.arg
       /\ \A d \in DOMAIN deals :
            (\/ deals'[d].disputed_by # deals[d].disputed_by
             \/ deals'[d].dispute_reason # deals[d].dispute_reason)
            => \E h \in inflight : h.op = "dispute" /\ h.d = d /\ Ends(h, "applied")]_vars

\* A dispute by the buyer has been applied.
C9_Applied ==
    /\ last = Event("dispute", Buyer, "DP-1", "applied")
    /\ deals["DP-1"].status = "disputed"
    /\ deals["DP-1"].disputed_by = Buyer

\* C10: an evidence row is inserted only while its deal is disputed, and its
\* submitter is the seller, the buyer or an admin.
C10_EvidenceWhileDisputed ==
    [][\A h \in inflight :
          (h.op = "evidence" /\ Ends(h, "inserted"))
          => /\ deals[h.d].status = "disputed"
             /\ isSeller(h.actor) \/ isBuyer(h.actor) \/ isAnyAdmin(h.actor) # "none"]_vars

\* C11: a canceldispute from a sender who is neither the disputer nor an
\* admin is rejected and changes no deal; an applied canceldispute comes from
\* the disputer or an admin and sets the status funded; a canceldispute on a
\* deal that is not disputed (the deal just returned to funded among them) is
\* rejected and changes nothing.
C11_CancelDispute ==
    [][/\ \A h \in inflight :
            (/\ h.op = "canceldispute" /\ h.pc = "write" /\ Steps(h)
             /\ h.aux # "disputer" /\ isAnyAdmin(h.actor) = "none")
            => /\ last' = Event("canceldispute", h.actor, h.d, "rejected")
               /\ UNCHANGED deals
       /\ \A h \in inflight :
            (h.op = "canceldispute" /\ Ends(h, "applied"))
            => /\ deals'[h.d].status = "funded"
               /\ h.aux = "disputer" \/ isAnyAdmin(h.actor) # "none"
       /\ \A h \in inflight' \ inflight :
            (h.op = "canceldispute" /\ h.pc = "write")
            => /\ Exists(h.d) /\ deals[h.d].status = "disputed"
               /\ h.aux = "disputer" <=> deals[h.d].disputed_by = h.actor
       /\ \A a \in Actors, d \in DealIds :
            (/\ ~(Exists(d) /\ deals[d].status = "disputed")
             /\ CancelDisputeStart(a, d))
            => /\ last' = Event("canceldispute", a, d, "rejected")
               /\ UNCHANGED <<deals, chain, inflight>>]_vars

\* The buyer, who opened the dispute, has cancelled it.
C11_DisputerCancelled ==
    /\ last = Event("canceldispute", Buyer, "DP-1", "applied")
    /\ deals["DP-1"].status = "funded"
    /\ deals["DP-1"].disputed_by = Buyer

\* C12: a release attempt by anyone but the deal's buyer is rejected in every
\* status; the buyer's attempt yields the release link only on a funded deal,
\* or on a disputed deal when the attempt carries the confirmation.
C12_ReleaseGuard ==
    [][/\ \A a \in Actors, d \in DealIds, confirm \in BOOLEAN :
            (/\ ~(/\ Exists(d) /\ isBuyer(a)
                  /\ \/ deals[d].status = "funded"
                     \/ deals[d].status = "disputed" /\ confirm)
             /\ ReleaseCommand(a, d, confirm))
            => last' = Event("release", a, d, "rejected")
       /\ \A a \in Actors, d \in DealIds :
            (/\ ~(Exists(d) /\ isBuyer(a) /\ deals[d].status = "funded")
             /\ ReleaseButton(a, d))
            => last' = Event("release_button", a, d, "rejected")]_vars

\* C13: when pollDeals finds on the ledger the deposit of a deal that is
\* already funded locally, it changes no field of the deal and sends no
\* second 'funded' message.
C13_FundedDetectionIdempotent ==
    [][\A p \in polls :
          (/\ PollSteps(p) /\ p.pc = "pending_write"
           /\ deals[Head(p.todo).d].status = "funded")
          => /\ UNCHANGED deals
             /\ last'.op # "poll_funded"]_vars

\* C14: at most one pollDeals cycle is running.
C14_OneCycle == Cardinality(polls) <= 1

ActionName(op) ==
    CASE op = "addmod" -> "add_mod"
      [] op = "removemod" -> "remove_mod"
      [] OTHER -> op

AdminOps ==
    {"assign", "unassign", "resolve", "addmod", "removemod", "msg", "broadcast",
     "canceldispute"}

\* C16: every admin command that has been applied (a canceldispute sent by an
\* admin among them) appends one entry with the command's name and its sender
\* to admin_logs, and the entries that admin_logs holds are never changed or
\* removed.  Steps whose log insert failed are left aside.
C16_AuditTrail ==
    [][/\ Len(admin_logs') >= Len(admin_logs)
       /\ SubSeq(admin_logs', 1, Len(admin_logs)) = admin_logs
       /\ \A op \in AdminOps, a \in Actors, d \in DealIds \cup {"-"}, res \in {"applied", "sent"} :
            (/\ last' = Event(op, a, d, res)
             /\ isAnyAdmin(a) # "none"
             /\ Len(admin_logs) < MaxLogs)
            => /\ Len(admin_logs') = Len(admin_logs) + 1
               /\ admin_logs'[Len(admin_logs')].admin = a
               /\ admin_logs'[Len(admin_logs')].action = ActionName(op)]_vars

\* C17: when the insert into admin_logs fails, the command's own change is
\* stored all the same and the handler ends with its confirmation: the
\* assignment, the resolution status, the moderator grant; and a resolve
\* whose status update is stored never ends as failed.
C17_LogFailureHarmless ==
    [][/\ \A h \in inflight :
            (/\ Steps(h)
             /\ last' = Event(h.op, h.actor, h.d, "applied_unlogged"))
            => /\ h \notin inflight'
               /\ UNCHANGED admin_logs
               /\ h.op = "assign" => deals'[h.d].assigned_to = h.arg
               /\ h.op = "unassign" => deals'[h.d].assigned_to = "none"
               /\ h.op = "resolve"
                  => deals'[h.d].status = IF h.arg = "release" THEN "completed"
                                          ELSE "refunded"
       /\ \A h \in inflight :
            (h.op \in {"resolve", "assign"} /\ Steps(h) /\ h.pc = "write" /\ deals' # deals)
            => \E res \in {"applied", "applied_unlogged"} : Ends(h, res)
       /\ \A a \in Actors, m \in ModCandidates :
            (AddMod(a, m) /\ last' = Event("addmod", a, "-", "applied_unlogged"))
            => ActiveRow(m) \in moderators' /\ UNCHANGED admin_logs]_vars

\* A resolution has been stored although its log entry could not be written.
C17_ResolvedUnlogged ==
    /\ last = Event("resolve", "bm", "DP-1", "applied_unlogged")
    /\ deals["DP-1"].status = "completed"
    /\ admin_logs = <<>>
    /\ \A h \in inflight : h.op = "resolve" /\ h.pc = "notify_seller"

\* C18: once a role's rating of a deal is stored it is never changed, and once
\* a role's review is stored it is never changed, whichever of the rate_
\* button and /review comes later.
C18_WrittenOnce ==
    [][\A d \in DOMAIN deals :
          /\ deals[d].seller_rating # 0 => deals'[d].seller_rating = deals[d].seller_rating
          /\ deals[d].buyer_rating # 0 => deals'[d].buyer_rating = deals[d].buyer_rating
          /\ deals[d].seller_review # "null" => deals'[d].seller_review = deals[d].seller_review
          /\ deals[d].buyer_review # "null" => deals'[d].buyer_review = deals[d].buyer_review]_vars

\* C19: a deal that exists keeps existing, under the same code and with the
\* same amount, through every handler step and every pollDeals step.
C19_AmountAndCodeFixed ==
    [][\A d \in DOMAIN deals :
          /\ d \in DOMAIN deals'
          /\ deals'[d].amount = deals[d].amount]_vars

\* A cancelled deal is still stored, with the amount it was created with.
C19_CancelledKept ==
    /\ last = Event("cancel", Seller, "DP-1", "applied")
    /\ Exists("DP-1")
    /\ deals["DP-1"].status = "cancelled"
    /\ deals["DP-1"].amount = DealAmount

\* C20: a cancel from anyone but the seller, or on a deal that is not
\* pending_deposit, is rejected and changes no deal; a cancel is applied only
\* to a deal that is pending_deposit, for its seller; and no step takes a deal
\* from funded to cancelled.
C20_CancelGuard ==
    [][/\ \A a \in Actors, d \in DealIds :
            (/\ ~(Exists(d) /\ isSeller(a) /\ deals[d].status = "pending_deposit")
             /\ CancelStart(a, d) \/ CancelButton(a, d))
            => /\ last' = Event("cancel", a, d, "rejected")
               /\ UNCHANGED <<deals, inflight>>
       /\ \A h \in inflight :
            (h.op = "cancel" /\ Ends(h, "applied"))
            => /\ isSeller(h.actor)
               /\ deals[h.d].status = "pending_deposit"
       /\ \A d \in DOMAIN deals :
            deals[d].status = "funded" => deals'[d].status # "cancelled"]_vars

\* C21: in a run of one command or cycle at a time, a pollDeals cycle takes up
\* every anchored pending deal, goes on to its write when the ledger reports
\* the deposit, and its stored write makes the deal funded; the buyer's
\* applied dispute makes it disputed with disputer and reason; an applied
\* assign records the moderator; the assigned moderator's applied refund,
\* confirmed by the ledger, makes the deal refunded on both sides; and on a
\* refunded deal every release attempt is rejected, the ledger offers no
\* release, and the status stays refunded.
C21_EndToEnd ==
    [][/\ PollStart
          => \A d \in DOMAIN deals :
                (deals[d].status = "pending_deposit" /\ deals[d].contract_deal_id)
                => \E p \in polls' : \E i \in 1..Len(p.todo) : p.todo[i].d = d
       /\ \A p \in polls :
            (/\ PollSteps(p) /\ p.pc = "pending" /\ p.todo # <<>>
             /\ chain[Head(p.todo).d].status = ChainFunded
             /\ last' = NoEvent)
            => \E q \in polls' : q.pc = "pending_write"
       /\ \A p \in polls :
            (/\ PollSteps(p) /\ p.pc = "pending_write"
             /\ last' = Event("poll_funded", "poll", Head(p.todo).d, "applied"))
            => deals'[Head(p.todo).d].status = "funded"
       /\ \A h \in inflight :
            (h.op = "dispute" /\ Ends(h, "applied"))
            => /\ deals'[h.d].status = "disputed"
               /\ deals'[h.d].disputed_by = h.actor
               /\ deals'[h.d].dispute_reason = h.arg
       /\ \A h \in inflight :
            (h.op = "assign" /\ (Ends(h, "applied") \/ Ends(h, "applied_unlogged")))
            => /\ deals'[h.d].assigned_to = h.arg
               /\ StatusKept(h.d)
       /\ \A h \in inflight :
            (/\ h.op = "resolve" /\ h.arg = "refund" /\ h.aux = "confirmed"
             /\ Ends(h, "applied") \/ Ends(h, "applied_unlogged"))
            => /\ deals'[h.d].status = "refunded"
               /\ chain[h.d].status = ChainRefunded
       /\ \A d \in DOMAIN deals :
            deals[d].status = "refunded"
            => /\ deals'[d].status = "refunded"
               /\ \A a \in Actors, confirm \in BOOLEAN :
                     ReleaseCommand(a, d, confirm) => last' = Event("release", a, d, "rejected")
               /\ \A a \in Actors :
                     ReleaseButton(a, d) => last' = Event("release_button", a, d, "rejected")
               /\ chain[d].status = ChainRefunded => ~WebRelease(d)]_vars

\* The whole run has happened: the deal is refunded on both sides, with the
\* buyer's dispute and moderator m1's assignment on record, and the buyer's
\* release attempt has just been rejected.
C21_RefundedAndClosed ==
    /\ deals["DP-1"].status = "refunded"
    /\ deals["DP-1"].funded_at # "null"
    /\ deals["DP-1"].disputed_by = Buyer
    /\ deals["DP-1"].dispute_reason = "no delivery"
    /\ deals["DP-1"].assigned_to = "m1"
    /\ chain["DP-1"].status = ChainRefunded
    /\ last = Event("release", Buyer, "DP-1", "rejected")

\* C22: for a moderator who is not the deal's assignee, resolve, msg,
\* broadcast and viewevidence on the deal are each rejected: no handler is
\* started, no deal or ledger entry changes, nothing is sent or shown.
C22_ModeratorScope ==
    [][\A a \in Actors, d \in DealIds :
          (/\ Exists(d)
           /\ isAnyAdmin(a) = "moderator"
           /\ deals[d].assigned_to # a)
          => /\ \A decision \in Decisions :
                   ResolveStart(a, d, decision)
                   => /\ last' = Event("resolve", a, d, "rejected")
                      /\ UNCHANGED <<deals, chain, inflight>>
             /\ \A target \in {"seller", "buyer"} :
                   MsgStart(a, d, target)
                   => /\ last' = Event("msg", a, d, "rejected")
                      /\ UNCHANGED <<inflight, admin_logs>>
             /\ Broadcast(a, d)
                => /\ last' = Event("broadcast", a, d, "rejected")
                   /\ UNCHANGED admin_logs
             /\ ViewEvidence(a, d)
                => last' = Event("viewevidence", a, d, "rejected")]_vars

\* C23: a deal that is pending_deposit and anchored, and whose deposit the
\* ledger has confirmed (the ledger reports it funded, or completed after the
\* buyer's release), leaves pending_deposit in the end.
C23_DepositDetected ==
    \A d \in DealIds :
        (/\ Exists(d)
         /\ deals[d].status = "pending_deposit" /\ deals[d].contract_deal_id
         /\ chain[d].status \in {ChainFunded, ChainCompleted})
        ~> (deals[d].status # "pending_deposit")

\* The reminder sweep of cycle p sends its reminder for deal d in this step.
Reminds(p, d) ==
    /\ PollSteps(p) /\ p.pc = "funded" /\ p.todo = <<>>
    /\ \E res \in {"applied", "unsaved"} : last' = Event("poll_remind", "poll", d, res)
    /\ \E q \in polls' : q.pc = "remind_notify" /\ q.funded = p.funded

\* C24: a step of the reminder sweep changes no deal's status; a reminder for
\* a deal is sent only while its reminded flag is unset and leaves the flag
\* set; and the flag, once set, stays set, so that no deal is reminded twice.
C24_ReminderOnce ==
    [][/\ \A p \in polls :
            (PollSteps(p) /\ p.pc = "funded" /\ p.todo = <<>>)
            => \A d \in DOMAIN deals : StatusKept(d)
       /\ \A p \in polls, d \in DOMAIN deals :
            Reminds(p, d)
            => /\ ~deals[d].release_reminder_sent
               /\ deals'[d].release_reminder_sent
       /\ \A d \in DOMAIN deals :
            deals[d].release_reminder_sent => deals'[d].release_reminder_sent]_vars

C26_LedgerBestEffort ==
    [][/\ \A h \in inflight :
            (h.op = "dispute" /\ h.pc = "onchain" /\ Steps(h))
            => /\ [h EXCEPT !.pc = "write"] \in inflight'
               /\ UNCHANGED deals
       /\ \A h \in inflight :
            (h.op = "dispute" /\ h.pc = "write" /\ Ends(h, "applied"))
            => /\ deals'[h.d].status = "disputed"
               /\ deals'[h.d].disputed_by = h.actor
               /\ deals'[h.d].dispute_reason = h.arg
       /\ \A d \in DOMAIN deals :
            (deals[d].status # "disputed" /\ deals'[d].status = "disputed")
            => \E h \in inflight : h.op = "dispute" /\ h.pc = "write" /\ h.d = d /\ Steps(h)]_vars

\* A dispute is stored locally while the ledger, whose dispute call failed or
\* was skipped, still reports the deal funded.
C26_DisputedLedgerUnmarked ==
    /\ last = Event("dispute", Buyer, "DP-1", "applied")
    /\ deals["DP-1"].status = "disputed"
    /\ deals["DP-1"].dispute_reason = "no delivery"
    /\ chain["DP-1"].status = ChainFunded

\* C27: no command and no pollDeals step whose update of the deal failed ends
\* with the reply or the messages of success ("unsaved"), and a step that
\* changes no deal adds no entry to admin_logs for a change of the deal.
C27_WriteFailureSurfaced ==
    [][/\ last' # last => last'.res # "unsaved"
       /\ \A h \in inflight :
            (h.op \in {"assign", "unassign", "resolve"} /\ Steps(h) /\ UNCHANGED deals)
            => UNCHANGED admin_logs]_vars

\* C28: an assign by anyone but a botmaster, or on a deal whose status is not
\* disputed, is rejected and changes nothing; an applied assign leaves the deal
\* as it was except for assigned_to, which is the one moderator named in the
\* command, whoever was assigned before; no step of assign changes the status.
C28_AssignGuard ==
    [][/\ \A a \in Actors, d \in DealIds, m \in ModCandidates :
            (/\ ~(isBotmaster(a) /\ Exists(d) /\ deals[d].status = "disputed")
             /\ AssignStart(a, d, m))
            => /\ last' = Event("assign", a, d, "rejected")
               /\ UNCHANGED <<deals, chain, admin_logs, inflight>>
       /\ \A h \in inflight' \ inflight :
            (h.op = "assign" /\ h.pc = "write")
            => isBotmaster(h.actor) /\ Exists(h.d) /\ deals[h.d].status = "disputed"
       /\ \A h \in inflight :
            (h.op = "assign" /\ (Ends(h, "applied") \/ Ends(h, "applied_unlogged")))
            => /\ h.arg \in ModCandidates
               /\ deals' = [deals EXCEPT ![h.d].assigned_to = h.arg]
       /\ \A h \in inflight :
            (h.op = "assign" /\ Steps(h)) => \A d \in DOMAIN deals : StatusKept(d)]_vars

\* The botmaster's assign to m2 has been applied on the disputed deal that was
\* assigned to m1: m2 is the assignee and m1 is not.
C28_Reassigned ==
    /\ last = Event("assign", "bm", "DP-1", "applied")
    /\ deals["DP-1"].status = "disputed"
    /\ deals["DP-1"].assigned_to = "m2"

\* The admin command of a on deal d that this step starts, if it starts one.
AdminAttempt(a, d) ==
    \/ \E decision \in Decisions : ResolveStart(a, d, decision)
    \/ \E target \in {"seller", "buyer"} : MsgStart(a, d, target)
    \/ Broadcast(a, d)
    \/ ViewEvidence(a, d)

C30_NotificationsBestEffort ==
    [][/\ \A h \in inflight :
            (h.pc \in NoticePcs /\ Steps(h))
            => /\ UNCHANGED <<deals, chain, admin_logs>>
               /\ h.op \in {"dispute", "canceldispute", "assign", "resolve"}
               /\ IF NextNotice(h.pc) = "done"
                  THEN \A g \in inflight' \ inflight : FALSE
                  ELSE [h EXCEPT !.pc = NextNotice(h.pc)] \in inflight'
       /\ \A p \in polls :
            (p.pc \in PollNoticePcs /\ PollSteps(p))
            => /\ UNCHANGED <<deals, chain, admin_logs>>
               /\ AfterNotice(p) \in polls'
               /\ AfterNotice(p).pc \in {"pending", "funded"}
               /\ Len(AfterNotice(p).todo) + Len(AfterNotice(p).funded)
                     = Len(p.todo) + Len(p.funded) - 1]_vars

\* The message of a dispute to the other party has failed: the deal is
\* disputed all the same and the handler is about to tell the botmasters.
C30_DisputeStoredNoticeFailed ==
    /\ last = Event("dispute", Buyer, "DP-1", "notify_failed")
    /\ deals["DP-1"].status = "disputed"
    /\ deals["DP-1"].disputed_by = Buyer
    /\ \E h \in inflight : h.op = "dispute" /\ h.pc = "notify_admins"

\* C31: a deal record whose contract_deal_id is set has a deal on the ledger
\* under its code, in every reachable state; a /fund whose createDeal
\* submission or confirmation fails or times out leaves the deal record as it
\* was; and no step of /fund changes the deal's status: the only field /fund
\* writes is contract_deal_id.
C31_AnchoredOnlyOnLedger ==
    /\ [](\A d \in DOMAIN deals : deals[d].contract_deal_id => OnLedger(d))
    /\ [][\A h \in inflight :
             (h.op = "fund" /\ Steps(h)) =>
                /\ StatusKept(h.d)
                /\ Ends(h, "failed") => deals' = deals
                /\ \A d \in DOMAIN deals :
                      deals'[d] = [deals[d] EXCEPT
                                     !.contract_deal_id = deals'[d].contract_deal_id]
                /\ \A d \in DOMAIN deals :
                      deals'[d].contract_deal_id # deals[d].contract_deal_id =>
                         d = h.d /\ h.pc = "write" /\ OnLedger(d)]_vars

\* A /fund by the buyer has failed although its transaction was mined: the
\* ledger holds the deal, the record is still unanchored and awaiting deposit.
C31_FailedFundLeftRecord ==
    /\ last = Event("fund", Buyer, "DP-1", "failed")
    /\ OnLedger("DP-1")
    /\ Exists("DP-1")
    /\ ~deals["DP-1"].contract_deal_id
    /\ deals["DP-1"].status = "pending_deposit"

\* C32: whenever the release button is on the screen, the page was opened
\* with action=release, the status searchDeal read from the ledger for the
\* loaded deal was Funded, and the connected wallet is the loaded deal's buyer,
\* after any sequence of searches, wallet connections and disconnections and
\* goBack.
C32_ReleaseGate ==
    ReleaseOffered =>
       /\ page.action_param = "release"
       /\ page.deal # NoDeal
       /\ page.deal.status = ChainFunded
       /\ page.address = page.deal.buyer

\* The part of C32 that does not depend on the wallet.
C32_LinkAndStatus ==
    ReleaseOffered =>
       /\ page.action_param = "release"
       /\ page.deal # NoDeal
       /\ page.deal.status = ChainFunded

\* C33: while a deal stays disputed, its disputed_by and dispute_reason stay
\* those of the dispute that moved it from funded to disputed: no step of
\* another dispute attempt, not even of one that read the deal while it was
\* still funded, writes them again, so the party who may withdraw the dispute
\* is the one who opened it.
C33_DisputerKept ==
    [][\A d \in DOMAIN deals :
          (deals[d].status = "disputed" /\ deals'[d].status = "disputed") =>
             /\ deals'[d].disputed_by = deals[d].disputed_by
             /\ deals'[d].dispute_reason = deals[d].dispute_reason]_vars

\* C34: for a deal that exists on the ledger, a resolve stores completed or
\* refunded only after it has sent resolveRelease or refund to the ledger: a
\* ledger lookup that failed does not count as 'the deal is not on the ledger'.
C34_ResolveCallsLedger ==
    [][\A h \in inflight :
          (/\ h.op = "resolve" /\ h.pc = "write" /\ Steps(h)
           /\ deals'[h.d].status \in {"completed", "refunded"}
           /\ deals'[h.d].status # deals[h.d].status
           /\ OnLedger(h.d))
          => h.aux \in {"confirmed", "tx_failed"}]_vars

\* From some point on no ledger read of pollDeals fails.
LookupsSucceed == <>[](last.op # "poll_lookup")

\* C35: a deal the ledger reports completed, whose record is anchored and
\* still funded, pending_deposit or disputed, is completed in the record in
\* the end, as long as pollDeals keeps running and its ledger reads succeed.
C35_CompletionReflected ==
    LookupsSucceed =>
       \A d \in DealIds :
           (/\ Exists(d) /\ deals[d].contract_deal_id
            /\ chain[d].status = ChainCompleted
            /\ deals[d].status \in {"funded", "pending_deposit", "disputed"})
           ~> (deals[d].status = "completed")

\* The case of C35 that pollDeals serves: a deal still funded in the record
\* when the ledger reports completed is completed or has been disputed since.
C35_FundedReflected ==
    \A d \in DealIds :
        (/\ Exists(d) /\ deals[d].contract_deal_id
         /\ chain[d].status = ChainCompleted
         /\ deals[d].status = "funded")
        ~> (deals[d].status \in {"completed", "disputed"})

\* C36: whenever a dispute moves a deal to disputed, the deal has no assigned
\* moderator: the assignment made during an earlier dispute, since withdrawn,
\* is gone, and gives that moderator no standing in the new dispute.
C36_DisputeStartsUnassigned ==
    [][\A d \in DOMAIN deals :
          (deals[d].status # "disputed" /\ deals'[d].status = "disputed")
          => deals'[d].assigned_to = "none"]_vars

\* C37: a rating or review is stored only on a deal that is completed or
\* refunded, and only by the deal's seller or buyer; so a deal that carries a
\* rating is completed or refunded.
C37_RatedOnlyWhenFinished ==
    /\ [](\A d \in DOMAIN deals :
             (deals[d].seller_rating # 0 \/ deals[d].buyer_rating # 0)
             => deals[d].status \in {"completed", "refunded"})
    /\ [][\A h \in inflight :
             (h.op \in {"rate", "review"} /\ Steps(h) /\ deals' # deals)
             => /\ isSeller(h.actor) \/ isBuyer(h.actor)
                /\ deals[h.d].status \in {"completed", "refunded"}]_vars

\* C38: the reminder sweep acts only on deals that are funded when it acts: a
\* deal that the completion pass of the same cycle has just completed, or that
\* a dispute has meanwhile moved to disputed, is not marked as reminded and
\* gets no reminder.
C38_RemindsOnlyFunded ==
    [][\A p \in polls : \A d \in DOMAIN deals :
          (Reminds(p, d) \/ (PollSteps(p) /\ deals'[d].release_reminder_sent
                                          /\ ~deals[d].release_reminder_sent))
          => deals[d].status = "funded"]_vars

====
